---- MODULE Spec2Model ----
(***************************************************************************)
(* Multi-raft governance of otter-ai (package governance): the raft,      *)
(* rule and proposal registries, ProposeRule, Vote with its size-dependent *)
(* outcome arithmetic, rule activation, RequestJoin, JoinRaft and the      *)
(* liveness sweep.                                                         *)
(*                                                                         *)
(* A *Rule is modelled by its value: every call of ProposeRule passes a    *)
(* rule object of its own, so two references are the same object exactly   *)
(* when the records are equal.  Rule.Version and Rule.Signature are never  *)
(* read by the governance logic and are left out, and so are the creation  *)
(* times RaftInfo.CreatedAt and Proposal.ProposedAt.  time.Time values are *)
(* natural numbers counted in units of the expiry window; a nil            *)
(* *time.Time is the empty sequence None, a set one is <<t>>.  The         *)
(* database keeps whole seconds (Unix()), and every time of the model is a *)
(* whole number of them, so a stored time reads back as it was written.    *)
(***************************************************************************)
EXTENDS Integers, Sequences, FiniteSets, TLC

VARIABLES
    rafts,      \* g.rafts.rafts      : raftID -> [members, rules]
    rules,      \* g.rules.rules      : ruleID -> Rule
    active,     \* g.rules.active     : scope  -> Rule
    proposals,  \* g.proposals.proposals : proposalID -> Proposal
    now,        \* the wall clock read by time.Now()
    last,       \* the last call: its operation and the error it returned
    calls,      \* how many calls have been made
    store,      \* the governance_* tables of the SQLite database
    dbUp,       \* whether the database takes a transaction
    negotiations,  \* g.negotiations.negotiations : negotiationID -> Negotiation
    proposalsMu,   \* the goroutine that holds g.proposals.mu, or NoHolder
    frames,        \* the calls in flight : goroutine -> its frame
    crypto,        \* g.crypto : the key pair of the CryptoSystem
    rl,            \* the RateLimiter : its requests map and the clientRate objects
    allowed,       \* the Allow calls that returned true : identifier and time
    locks          \* the mutexes : name -> holder, readers, blocked writers

vars == <<rafts, rules, active, proposals, now, last, calls, store, dbUp,
          negotiations, proposalsMu, frames, crypto, rl, allowed, locks>>

----------------------------------------------------------------------------
(* Bounds of the model *)

MaxCalls == 6       \* calls made in a behaviour of Spec
MaxVoters == 4      \* otters that join the solo raft under SpecVote
MaxNow == 2         \* the clock stops advancing here

(* Program constants *)

ExpiryWindow == 1   \* 90 * 24 * time.Hour: the clock counts units of 90 days

NodeID == "n"       \* g.config.ID, also the id of the solo raft
OtherRaft == "y"    \* a raft of another otter
PeerNames == <<"b", "c", "d", "e", "f", "g", "h", "i">>

Peers(k) == {PeerNames[i] : i \in 1..k}
RaftIds == {NodeID, OtherRaft}
MemberIds == {NodeID, "b"}
PublicKeys == {"pk"}

None == <<>>
Some(t) == <<t>>

StateActive == "active"
StateInactive == "inactive"
StateExpired == "expired"
StateRevoked == "revoked"
StateLeft == "left"

VoteYes == "YES"
VoteNo == "NO"
VoteAbstain == "ABSTAIN"
VoteTypes == {VoteYes, VoteNo, VoteAbstain}

ProposalOpen == "open"
ProposalClosed == "closed"
ResultPending == "pending"
ResultAdopted == "adopted"
ResultRejected == "rejected"

(* Error kinds of the calls ("ok" is a nil error) *)
Ok == "ok"
ErrRaftNotFound == "RaftNotFound"
ErrMemberNotActive == "MemberNotActive"
ErrProposalNotFound == "ProposalNotFound"
ErrProposalClosed == "ProposalClosed"

----------------------------------------------------------------------------
(* Go maps *)

EmptyMap == [k \in {} |-> k]
Has(m, k) == k \in DOMAIN m
\* A map that keeps the value a key already has.
PutIfAbsent(m, k, v) ==
    [x \in DOMAIN m \cup {k} |-> IF x \in DOMAIN m THEN m[x] ELSE v]

Put(m, k, v) == [x \in DOMAIN m \cup {k} |-> IF x = k THEN v ELSE m[x]]
Delete(m, k) == [x \in DOMAIN m \ {k} |-> m[x]]

----------------------------------------------------------------------------
(* Records *)

Member(id, state, at, publicKey, inductedBy) ==
    [id |-> id, state |-> state, joinedAt |-> at, lastSeenAt |-> at,
     publicKey |-> publicKey, inductedBy |-> inductedBy, expiresAt |-> None]

RaftInfo(raftID, members, raftRules) ==
    [raftId |-> raftID, members |-> members, rules |-> raftRules]

\* The rule a caller builds: RaftID and AdoptedAt are not set by the callers.
Rule(ruleID, scope, ts, body, baseRuleID, proposedBy) ==
    [ruleId |-> ruleID, raftId |-> "", scope |-> scope, timestamp |-> ts,
     body |-> body, baseRuleId |-> baseRuleID, proposedBy |-> proposedBy,
     adoptedAt |-> None]

\* generateID: the hash of the rule printed field by field; a collision-free
\* hash is the printed value itself.
GenerateID(rule) ==
    <<rule.ruleId, rule.raftId, rule.scope, rule.timestamp, rule.body,
      rule.baseRuleId, rule.proposedBy, rule.adoptedAt>>

Call(op, err) == [op |-> op, err |-> err]

\* g.proposals.mu is free; no Vote call is in flight
NoHolder == ""
NoFrames == EmptyMap

----------------------------------------------------------------------------
(* sync.Mutex and sync.RWMutex: the goroutine that holds the lock for
   writing, the goroutines that hold it for reading, and the goroutines
   blocked in Lock(), which keep new readers out. *)

Free == [writer |-> NoHolder, readers |-> {}, waiting |-> {}]

\* Governance.mu, the four registry locks, RaftInfo.mu of the two rafts,
\* RateLimiter.mu and clientRate.mu of the client objects
RaftMu(raftID) == "raft." \o raftID \o ".mu"
ClientRefs == {"c1", "c2", "c3", "c4"}
ClientMu(ref) == "client." \o ref \o ".mu"

LockNames ==
    {"g.mu", "g.rafts.mu", "g.rules.mu", "g.proposals.mu", "g.negotiations.mu",
     "rl.mu"}
    \cup {RaftMu(r) : r \in RaftIds}
    \cup {ClientMu(ref) : ref \in ClientRefs}

NoLocks == [m \in LockNames |-> Free]

----------------------------------------------------------------------------
(* CryptoSystem.  A byte string is a sequence of bytes.  The keys are those
   of ecdh.P256 for the scalars 1, 2 and 3, each 32-byte number cut to one
   byte: the last byte of the scalar, the first byte of a coordinate of
   the point. *)

Scalars == {1, 2, 3}

\* The coordinates of G, 2G and 3G
PointX(d) == CASE d = 1 -> 107 [] d = 2 -> 124 [] OTHER -> 94
PointY(d) == CASE d = 1 -> 79 [] d = 2 -> 7 [] OTHER -> 135

\* NewCryptoSystem with the scalar d drawn from rand.Reader: PrivateKey.Bytes()
\* is the scalar, PublicKey.Bytes() the uncompressed point 0x04 || X || Y
NewCryptoSystem(d) ==
    [privateKey |-> <<d>>, publicKey |-> <<4, PointX(d), PointY(d)>>]

\* LoadOrGenerateKeys of the model's node
NodeKeys == NewCryptoSystem(1)

----------------------------------------------------------------------------
(* NewRateLimiter: no client is known.  clients is the heap of clientRate
   objects, requests the map from an identifier to its object. *)

RateLimit == 1      \* rl.limit
RateWindow == 1     \* rl.window, in units of the clock

NewRateLimiter == [requests |-> EmptyMap, clients |-> EmptyMap, ticks |-> 0]

NoneAllowed == <<>>

----------------------------------------------------------------------------
(* getActiveMembers *)

IsActive(rs, raftID, id) ==
    /\ Has(rs, raftID)
    /\ Has(rs[raftID].members, id)
    /\ rs[raftID].members[id].state = StateActive

GetActiveMembers(rs, raftID) ==
    IF Has(rs, raftID)
    THEN {id \in DOMAIN rs[raftID].members : rs[raftID].members[id].state = StateActive}
    ELSE {}

----------------------------------------------------------------------------
(* Persistence: governance_rafts (the raft ids), governance_members keyed by
   (raft_id, member_id) and governance_rules keyed by rule_id alone.  Each
   save is one transaction of INSERT OR REPLACE statements. *)

EmptyStore == [rafts |-> {}, members |-> EmptyMap, rules |-> EmptyMap]

\* saveRuleInTx
SaveRuleInTx(st, rule) == [st EXCEPT !.rules = Put(@, rule.ruleId, rule)]

\* saveRule: the store after the call; a failed transaction leaves it as it was
SaveRule(st, up, rule) == IF up THEN SaveRuleInTx(st, rule) ELSE st

\* saveRaft: the raft's row, a row for each member, a row for each rule
SaveRaft(st, up, raft) ==
    IF up
    THEN [rafts |-> st.rafts \cup {raft.raftId},
          members |->
             [k \in DOMAIN st.members
                     \cup {<<raft.raftId, id>> : id \in DOMAIN raft.members} |->
                 IF k[1] = raft.raftId /\ Has(raft.members, k[2])
                 THEN raft.members[k[2]]
                 ELSE st.members[k]],
          rules |->
             [k \in DOMAIN st.rules \cup DOMAIN raft.rules |->
                 IF Has(raft.rules, k) THEN raft.rules[k] ELSE st.rules[k]]]
    ELSE st

----------------------------------------------------------------------------
(* initializeSelf and New: the node's solo raft; the first run finds no
   persisted state to load. *)

\* initializeSelf: the solo raft made at time t
SelfRaft(t) ==
    RaftInfo(NodeID,
             Put(EmptyMap, NodeID, Member(NodeID, StateActive, t, "pk", "self")),
             EmptyMap)

Init ==
    /\ now = 0
    /\ rafts = Put(EmptyMap, NodeID, SelfRaft(0))
    /\ rules = EmptyMap
    /\ active = EmptyMap
    /\ proposals = EmptyMap
    /\ last = Call("New", Ok)
    /\ calls = 0
    /\ dbUp = TRUE
    /\ store = SaveRaft(EmptyStore, TRUE, SelfRaft(0))
    /\ negotiations = EmptyMap
    /\ proposalsMu = NoHolder
    /\ frames = NoFrames
    /\ crypto = NodeKeys
    /\ rl = NewRateLimiter
    /\ allowed = NoneAllowed
    /\ locks = NoLocks

\* loadGovernanceState: the raft read back from its rows
LoadedRaft(st, raftID) ==
    RaftInfo(raftID,
             [id \in {k[2] : k \in {x \in DOMAIN st.members : x[1] = raftID}} |->
                 st.members[<<raftID, id>>]],
             [k \in {x \in DOMAIN st.rules : st.rules[x].raftId = raftID} |->
                 st.rules[k]])

\* loadGovernanceState: the rafts it reads, all but the bootstrapped solo raft
LoadedRaftIds(st, up) == IF up THEN st.rafts \ {NodeID} ELSE {}

\* loadGovernanceState: the rules it puts in the rule registry
LoadedAdopted(st, up) ==
    {st.rules[k] : k \in {x \in DOMAIN st.rules :
                             /\ st.rules[x].raftId \in LoadedRaftIds(st, up)
                             /\ st.rules[x].adoptedAt # None}}

(* New on the data directory st at time t: initializeSelf, its saveRaft,
   then loadGovernanceState.  The rows of a query come in no stated order,
   so any loaded rule of a scope can be the one left in the active index. *)
Boot(st, t, up) ==
    LET st1 == SaveRaft(st, up, SelfRaft(t))
        adopted == LoadedAdopted(st1, up)
    IN /\ store' = st1
       /\ rafts' = [r \in {NodeID} \cup LoadedRaftIds(st1, up) |->
                      IF r = NodeID THEN SelfRaft(t) ELSE LoadedRaft(st1, r)]
       /\ rules' = [k \in {u.ruleId : u \in adopted} |-> st1.rules[k]]
       /\ active' \in {f \in [{u.scope : u \in adopted} -> adopted] :
                          \A scope \in DOMAIN f : f[scope].scope = scope}
       /\ proposals' = EmptyMap
       /\ negotiations' = EmptyMap
       /\ proposalsMu' = NoHolder
       /\ frames' = NoFrames
       /\ rl' = NewRateLimiter
       /\ locks' = NoLocks
       /\ last' = Call("New", Ok)

(* The process stops and is started again on its data directory. *)
Restart ==
    /\ Boot(store, now, dbUp)
    /\ UNCHANGED <<now, dbUp, crypto, allowed>>

(* The database stops taking transactions, or takes them again. *)
SetDb(up) ==
    /\ up # dbUp
    /\ dbUp' = up
    /\ last' = Call("SetDb", Ok)
    /\ UNCHANGED <<rafts, rules, active, proposals, now, store,
                   negotiations, proposalsMu, frames,
                   crypto, rl, allowed, locks>>

(* Time passes between calls. *)
AdvanceClock(d) ==
    /\ d > 0
    /\ now + d <= MaxNow
    /\ now' = now + d
    /\ last' = Call("AdvanceClock", Ok)
    /\ UNCHANGED <<rafts, rules, active, proposals, store, dbUp,
                   negotiations, proposalsMu, frames,
                   crypto, rl, allowed, locks>>

----------------------------------------------------------------------------
(* checkExpiredMembers: one sweep of the liveness monitor over every member
   of every raft. *)

\* An expiry that takes a member last seen exactly one window ago.
ExpireMemberAtWindow(m, t) ==
    IF m.state = StateActive /\ m.lastSeenAt <= t - ExpiryWindow
    THEN [m EXCEPT !.state = StateExpired,
                   !.expiresAt = Some(m.lastSeenAt + ExpiryWindow)]
    ELSE m

ExpireMember(m, t) ==
    IF m.state = StateActive /\ m.lastSeenAt < t - ExpiryWindow
    THEN [m EXCEPT !.state = StateExpired,
                   !.expiresAt = Some(m.lastSeenAt + ExpiryWindow)]
    ELSE m

CheckExpiredMembers ==
    /\ rafts' = [r \in DOMAIN rafts |->
                   [rafts[r] EXCEPT !.members =
                       [id \in DOMAIN rafts[r].members |->
                           ExpireMember(rafts[r].members[id], now)]]]
    /\ last' = Call("checkExpiredMembers", Ok)
    /\ UNCHANGED <<rules, active, proposals, now, store, dbUp,
                   negotiations, proposalsMu, frames,
                   crypto, rl, allowed, locks>>

----------------------------------------------------------------------------
(* ProposeRule *)

\* A proposer check that looks the member up and not at its state.
ProposeErrorAnyMember(raftID, rule) ==
    IF ~Has(rafts, raftID) THEN ErrRaftNotFound
    ELSE IF ~Has(rafts[raftID].members, rule.proposedBy)
         THEN ErrMemberNotActive
         ELSE Ok

ProposeError(raftID, rule) ==
    IF ~Has(rafts, raftID) THEN ErrRaftNotFound
    ELSE IF ~Has(rafts[raftID].members, rule.proposedBy)
            \/ rafts[raftID].members[rule.proposedBy].state # StateActive
         THEN ErrMemberNotActive
         ELSE Ok

NewProposal(raftID, rule) ==
    LET r == [rule EXCEPT !.raftId = raftID]
    IN [proposalId |-> GenerateID(r), raftId |-> raftID, rule |-> r,
        proposedBy |-> r.proposedBy, votes |-> EmptyMap,
        status |-> ProposalOpen, quorumMet |-> FALSE, result |-> ResultPending,
        closedAt |-> None]

ProposeRule(raftID, rule) ==
    LET err == ProposeError(raftID, rule)
        proposal == NewProposal(raftID, rule)
    IN /\ last' = Call("ProposeRule", err)
       /\ proposals' = IF err = Ok
                       THEN Put(proposals, proposal.proposalId, proposal)
                       ELSE proposals
       /\ UNCHANGED <<rafts, rules, active, now, store, dbUp,
                      negotiations, proposalsMu, frames,
                      crypto, rl, allowed, locks>>

----------------------------------------------------------------------------
(* checkProposalOutcome *)

CountVotes(votes, v) == Cardinality({k \in DOMAIN votes : votes[k] = v})

\* The quorum rounded down instead of up.
QuorumThresholdFloor(totalActive) == (totalActive * 2) \div 3

QuorumThreshold(totalActive) == (totalActive * 2 + 2) \div 3

\* The YES threshold rounded down instead of up.
RequiredVotesFloor(totalActive, needsSuperMajority) ==
    IF needsSuperMajority
    THEN (totalActive * 3) \div 4
    ELSE (totalActive * 2) \div 3

\* An override decided by the plain two-thirds threshold.
RequiredVotesNoSuper(totalActive, needsSuperMajority) ==
    (totalActive * 2 + 2) \div 3

RequiredVotes(totalActive, needsSuperMajority) ==
    IF needsSuperMajority
    THEN (totalActive * 3 + 3) \div 4
    ELSE (totalActive * 2 + 2) \div 3

\* A solo raft that adopts whatever its otter votes.
SoloOutcomeAnyVote(yesVotes, noVotes, votescast) ==
    [quorumMet |-> votescast >= 1,
     shouldClose |-> votescast >= 1,
     adopted |-> votescast >= 1]

\* case 1
SoloOutcome(yesVotes, noVotes, votescast) ==
    [quorumMet |-> votescast >= 1,
     shouldClose |-> votescast >= 1,
     adopted |-> votescast >= 1 /\ yesVotes >= 1]

\* Two otters deciding by YES against NO instead of by unanimity.
DuoOutcomeMoreYes(yesVotes, noVotes, votescast) ==
    [quorumMet |-> votescast >= 2,
     shouldClose |-> votescast >= 2,
     adopted |-> votescast >= 2 /\ yesVotes > noVotes]

\* case 2
DuoOutcome(yesVotes, noVotes, votescast) ==
    [quorumMet |-> votescast >= 2,
     shouldClose |-> votescast >= 2,
     adopted |-> votescast >= 2 /\ yesVotes = 2 /\ noVotes = 0]

\* Close if decision reached or all members voted
ShouldClose(adopted, votescast, totalActive) ==
    adopted \/ votescast >= totalActive

\* default: three otters or more
MajorityOutcome(totalActive, yesVotes, noVotes, votescast, needsSuperMajority) ==
    LET quorumMet == votescast >= QuorumThreshold(totalActive)
        adopted == yesVotes >= RequiredVotes(totalActive, needsSuperMajority)
    IN IF ~quorumMet \/ yesVotes + noVotes = 0
       THEN [quorumMet |-> quorumMet, shouldClose |-> FALSE, adopted |-> FALSE]
       ELSE [quorumMet |-> quorumMet,
             shouldClose |-> ShouldClose(adopted, votescast, totalActive),
             adopted |-> adopted]

Outcome(totalActive, yesVotes, noVotes, votescast, needsSuperMajority) ==
    CASE totalActive = 1 -> SoloOutcome(yesVotes, noVotes, votescast)
      [] totalActive = 2 -> DuoOutcome(yesVotes, noVotes, votescast)
      [] OTHER -> MajorityOutcome(totalActive, yesVotes, noVotes, votescast,
                                  needsSuperMajority)

\* The proposal after checkProposalOutcome, its rule's AdoptedAt included.
CheckProposalOutcome(proposal, rs, t) ==
    LET totalActive == Cardinality(GetActiveMembers(rs, proposal.raftId))
        o == Outcome(totalActive,
                     CountVotes(proposal.votes, VoteYes),
                     CountVotes(proposal.votes, VoteNo),
                     Cardinality(DOMAIN proposal.votes),
                     proposal.rule.baseRuleId # "")
    IN IF ~Has(rs, proposal.raftId) \/ totalActive = 0 THEN proposal
       ELSE IF ~o.shouldClose THEN [proposal EXCEPT !.quorumMet = o.quorumMet]
       ELSE IF o.adopted
            THEN [proposal EXCEPT !.quorumMet = o.quorumMet,
                                  !.result = ResultAdopted,
                                  !.status = ProposalClosed,
                                  !.closedAt = Some(t),
                                  !.rule.adoptedAt = Some(t)]
            ELSE [proposal EXCEPT !.quorumMet = o.quorumMet,
                                  !.result = ResultRejected,
                                  !.status = ProposalClosed,
                                  !.closedAt = Some(t)]

----------------------------------------------------------------------------
(* activateRule: the registries after the rule is activated *)

\* An activation that fills the rule registry and not the raft's rules.
ActivateRuleRegistryOnly(rule, rs, rls, act, st, up) ==
    [rafts |-> rs, rules |-> Put(rls, rule.ruleId, rule),
     active |-> Put(act, rule.scope, rule), store |-> st]

\* An activation that leaves the base rule of an override active.
ActivateRuleKeepBase(rule, rs, rls, act, st, up) ==
    [rafts |-> IF Has(rs, rule.raftId)
               THEN [rs EXCEPT ![rule.raftId].rules = Put(@, rule.ruleId, rule)]
               ELSE rs,
     rules |-> Put(rls, rule.ruleId, rule),
     active |-> Put(act, rule.scope, rule),
     store |-> IF Has(rs, rule.raftId) THEN SaveRule(st, up, rule) ELSE st]

ActivateRule(rule, rs, rls, act, st, up) ==
    LET rls1 == Put(rls, rule.ruleId, rule)
        act1 == Put(act, rule.scope, rule)
        rs1 == IF Has(rs, rule.raftId)
               THEN [rs EXCEPT ![rule.raftId].rules = Put(@, rule.ruleId, rule)]
               ELSE rs
        baseRule == rls1[rule.baseRuleId]
        act2 == IF /\ rule.baseRuleId # ""
                   /\ Has(rls1, rule.baseRuleId)
                   /\ Has(act1, baseRule.scope)
                   /\ act1[baseRule.scope] = baseRule
                THEN Delete(act1, baseRule.scope)
                ELSE act1
        \* a failed saveRule is logged and nothing else
        st1 == IF Has(rs, rule.raftId) THEN SaveRule(st, up, rule) ELSE st
    IN [rafts |-> rs1, rules |-> rls1, active |-> act2, store |-> st1]

----------------------------------------------------------------------------
(* Vote *)

\* A voter check that looks the member up and not at its state.
VoteErrorAnyMember(proposalID, voterID) ==
    IF ~Has(proposals, proposalID) THEN ErrProposalNotFound
    ELSE IF proposals[proposalID].status # ProposalOpen THEN ErrProposalClosed
    ELSE IF ~Has(rafts, proposals[proposalID].raftId) THEN ErrRaftNotFound
    ELSE IF ~Has(rafts[proposals[proposalID].raftId].members, voterID)
         THEN ErrMemberNotActive
         ELSE Ok

VoteError(proposalID, voterID) ==
    IF ~Has(proposals, proposalID) THEN ErrProposalNotFound
    ELSE IF proposals[proposalID].status # ProposalOpen THEN ErrProposalClosed
    ELSE IF ~Has(rafts, proposals[proposalID].raftId) THEN ErrRaftNotFound
    ELSE IF ~Has(rafts[proposals[proposalID].raftId].members, voterID)
            \/ rafts[proposals[proposalID].raftId].members[voterID].state
                 # StateActive
         THEN ErrMemberNotActive
         ELSE Ok

Vote(proposalID, voterID, vote) ==
    LET err == VoteError(proposalID, voterID)
    IN /\ last' = Call("Vote", err)
       /\ UNCHANGED <<now, dbUp,
                      negotiations, proposalsMu, frames,
                      crypto, rl, allowed, locks>>
       /\ IF err = Ok
          THEN LET voted == [proposals[proposalID] EXCEPT
                                !.votes = Put(@, voterID, vote)]
                   decided == CheckProposalOutcome(voted, rafts, now)
                   reg == ActivateRule(decided.rule, rafts, rules, active,
                                       store, dbUp)
               IN /\ proposals' = [proposals EXCEPT ![proposalID] = decided]
                  /\ IF decided.result = ResultAdopted
                     THEN /\ rafts' = reg.rafts
                          /\ rules' = reg.rules
                          /\ active' = reg.active
                          /\ store' = reg.store
                     ELSE UNCHANGED <<rafts, rules, active, store>>
          ELSE UNCHANGED <<rafts, rules, active, proposals, store>>

----------------------------------------------------------------------------
(* RequestJoin: this otter inducts the requester into one of its rafts *)

\* A join that leaves the requester waiting, not yet active.
RequestJoinInactive(targetRaftID, requesterID, publicKey) ==
    IF ~Has(rafts, targetRaftID)
    THEN /\ last' = Call("RequestJoin", ErrRaftNotFound)
         /\ UNCHANGED <<rafts, rules, active, proposals, now, store, dbUp,
                        negotiations, proposalsMu, frames,
                        crypto, rl, allowed, locks>>
    ELSE /\ rafts' = [rafts EXCEPT ![targetRaftID].members =
                         Put(@, requesterID,
                             Member(requesterID, StateInactive, now, publicKey,
                                    NodeID))]
         /\ last' = Call("RequestJoin", Ok)
         /\ UNCHANGED <<rules, active, proposals, now, store, dbUp,
                        negotiations, proposalsMu, frames,
                        crypto, rl, allowed, locks>>

RequestJoin(targetRaftID, requesterID, publicKey) ==
    IF ~Has(rafts, targetRaftID)
    THEN /\ last' = Call("RequestJoin", ErrRaftNotFound)
         /\ UNCHANGED <<rafts, rules, active, proposals, now, store, dbUp,
                        negotiations, proposalsMu, frames,
                        crypto, rl, allowed, locks>>
    ELSE /\ rafts' = [rafts EXCEPT ![targetRaftID].members =
                         Put(@, requesterID,
                             Member(requesterID, StateActive, now, publicKey,
                                    NodeID))]
         /\ last' = Call("RequestJoin", Ok)
         /\ UNCHANGED <<rules, active, proposals, now, store, dbUp,
                        negotiations, proposalsMu, frames,
                        crypto, rl, allowed, locks>>

----------------------------------------------------------------------------
(* JoinRaft *)

NegotiationInProgress == "in_progress"
NegotiationResolved == "resolved"
NegotiationFailed == "failed"

ErrNoConflicts == "NoConflicts"
ErrConflictUnresolved == "ConflictUnresolved"

\* fmt.Sprintf("%d", n) of a natural number
Digits == <<"0", "1", "2", "3", "4", "5", "6", "7", "8", "9">>

RECURSIVE Itoa(_)
Itoa(n) == IF n < 10 THEN Digits[n + 1]
           ELSE Itoa(n \div 10) \o Digits[(n % 10) + 1]

\* fetchRaftRules: the remote call is a placeholder that returns no rule.
FetchRaftRules(endpoint, raftID) == EmptyMap

\* A RuleConflict; DetectedAt is never read and is left out.
RuleConflict(raft1ID, raft2ID, rule1, rule2) ==
    [conflictId |-> rule2.ruleId \o "-" \o rule1.ruleId,
     raft1Id |-> raft1ID, raft2Id |-> raft2ID, rule1 |-> rule1, rule2 |-> rule2,
     conflictScope |-> rule2.scope]

\* A detection that also compares the target's rules with the rules the
\* registry holds for the target raft itself.
DetectRuleConflictsAllRafts(targetRaftID, targetRules) ==
    {RuleConflict(r, targetRaftID, rafts[r].rules[k1], targetRules[k2]) :
        <<r, k1, k2>> \in
           {x \in (DOMAIN rafts)
                  \X (UNION {DOMAIN rafts[q].rules : q \in DOMAIN rafts})
                  \X (DOMAIN targetRules) :
               /\ Has(rafts[x[1]].rules, x[2])
               /\ targetRules[x[3]].scope = rafts[x[1]].rules[x[2]].scope
               /\ targetRules[x[3]].body # rafts[x[1]].rules[x[2]].body}}

\* detectRuleConflicts: the conflicts it appends, one for each existing rule
\* of a raft other than the target and each target rule of the same scope and
\* another body.  The rules of one map differ in their ids, so each pair of
\* map entries is one pair of rule values.
DetectRuleConflicts(targetRaftID, targetRules) ==
    {RuleConflict(r, targetRaftID, rafts[r].rules[k1], targetRules[k2]) :
        <<r, k1, k2>> \in
           {x \in (DOMAIN rafts \ {targetRaftID})
                  \X (UNION {DOMAIN rafts[q].rules : q \in DOMAIN rafts})
                  \X (DOMAIN targetRules) :
               /\ Has(rafts[x[1]].rules, x[2])
               /\ targetRules[x[3]].scope = rafts[x[1]].rules[x[2]].scope
               /\ targetRules[x[3]].body # rafts[x[1]].rules[x[2]].body}}

\* detectRuleConflicts: the slices it can return.  The three loops range
\* over Go maps, whose order is not fixed: the conflicts of one raft are
\* together, and in them the conflicts of one target rule are together.
ConflictOrders(targetRaftID, targetRules) ==
    LET cs == DetectRuleConflicts(targetRaftID, targetRules)
        n == Cardinality(cs)
    IN {s \in [1..n -> cs] :
          /\ \A i, j \in 1..n : i # j => s[i] # s[j]
          /\ \A i, j, k \in 1..n :
                (i < j /\ j < k /\ s[i].raft1Id = s[k].raft1Id) =>
                   /\ s[j].raft1Id = s[i].raft1Id
                   /\ s[i].rule2 = s[k].rule2 => s[j].rule2 = s[i].rule2}

\* adoptRulesAndJoin
AdoptRulesAndJoin(targetRaftID, targetRules) ==
    LET raft == RaftInfo(targetRaftID, EmptyMap, targetRules)
    IN /\ rafts' = Put(rafts, targetRaftID, raft)
       \* a failed saveRaft is logged and the join still succeeds
       /\ store' = SaveRaft(store, dbUp, raft)
       /\ last' = Call("JoinRaft", Ok)
       /\ UNCHANGED <<rules, active, proposals, now, dbUp,
                      negotiations, proposalsMu, frames,
                      crypto, rl, allowed, locks>>

\* The id startNegotiation gives a negotiation begun at time t
NegotiationID(targetRaftID, t) ==
    "negotiation-" \o targetRaftID \o "-" \o Itoa(t)

\* The Negotiation startNegotiation registers
Negotiation(targetRaftID, conflicts, t) ==
    [negotiationId |-> NegotiationID(targetRaftID, t),
     raft1Id |-> conflicts[1].raft1Id, raft2Id |-> targetRaftID,
     conflicts |-> conflicts, proposedRule |-> None,
     raft1Proposal |-> None, raft2Proposal |-> None,
     status |-> NegotiationInProgress, startedAt |-> t, completedAt |-> None,
     llmTranscript |-> <<>>]

\* buildNegotiationPrompt: the two raft ids and a section for each conflict
\* with its number, its scope and the two bodies; the fixed text is left out.
BuildNegotiationPrompt(negotiation) ==
    <<negotiation.raft1Id, negotiation.raft2Id,
      [i \in 1..Len(negotiation.conflicts) |->
          <<i, negotiation.conflicts[i].conflictScope,
            negotiation.conflicts[i].rule1.body,
            negotiation.conflicts[i].rule2.body>>]>>

PlaceholderBody == "# Negotiated compromise rule\n# (LLM-generated)"
LLMNegotiation == "llm-negotiation"

\* negotiateWithLLM: the transcript it leaves and the rule it returns; the
\* provider and the context are not used, and it returns no error.
NegotiateWithLLM(negotiation, ctx, llmProvider, t) ==
    [llmTranscript |->
        Append(negotiation.llmTranscript, BuildNegotiationPrompt(negotiation)),
     rule |->
        [ruleId |-> "compromise-" \o negotiation.negotiationId,
         raftId |-> "", scope |-> negotiation.conflicts[1].conflictScope,
         timestamp |-> t, body |-> PlaceholderBody, baseRuleId |-> "",
         proposedBy |-> LLMNegotiation, adoptedAt |-> None],
     err |-> Ok]

\* startNegotiation: the negotiation as it stands in the registry when the
\* call returns, and the error returned
StartNegotiation(targetRaftID, conflicts, ctx, llmProvider, t) ==
    IF Len(conflicts) = 0
    THEN [negotiation |-> None, err |-> ErrNoConflicts]
    ELSE LET negotiation == Negotiation(targetRaftID, conflicts, t)
             answer == NegotiateWithLLM(negotiation, ctx, llmProvider, t)
             asked == [negotiation EXCEPT
                          !.llmTranscript = answer.llmTranscript]
         IN IF answer.err # Ok
            THEN [negotiation |->
                     Some([asked EXCEPT !.status = NegotiationFailed]),
                  err |-> answer.err]
            ELSE [negotiation |->
                     Some([asked EXCEPT !.proposedRule = Some(answer.rule),
                                        !.status = NegotiationResolved,
                                        !.completedAt = Some(t)]),
                  err |-> Ok]

\* executeDualRaftVote: ProposeRule for raft 1 with the negotiation's rule,
\* then for raft 2 with a copy of it.  The first ProposeRule writes the raft
\* id into the negotiation's rule.
ExecuteDualRaftVote(negotiation) ==
    LET rule1 == negotiation.proposedRule[1]
        err1 == ProposeError(negotiation.raft1Id, rule1)
        proposal1 == NewProposal(negotiation.raft1Id, rule1)
        proposal2Rule == [proposal1.rule EXCEPT !.raftId = negotiation.raft2Id]
        err2 == ProposeError(negotiation.raft2Id, proposal2Rule)
        proposal2 == NewProposal(negotiation.raft2Id, proposal2Rule)
        proposed1 == [negotiation EXCEPT !.proposedRule = Some(proposal1.rule)]
    IN IF err1 # Ok
       THEN /\ last' = Call("JoinRaft", err1)
            /\ negotiations' =
                  Put(negotiations, negotiation.negotiationId, negotiation)
            /\ UNCHANGED proposals
       ELSE IF err2 # Ok
       THEN /\ last' = Call("JoinRaft", err2)
            /\ negotiations' =
                  Put(negotiations, negotiation.negotiationId, proposed1)
            /\ proposals' = Put(proposals, proposal1.proposalId, proposal1)
       ELSE /\ last' = Call("JoinRaft", Ok)
            /\ negotiations' =
                  Put(negotiations, negotiation.negotiationId,
                      [proposed1 EXCEPT
                          !.raft1Proposal = Some(proposal1.proposalId),
                          !.raft2Proposal = Some(proposal2.proposalId)])
            /\ proposals' = Put(Put(proposals, proposal1.proposalId, proposal1),
                                proposal2.proposalId, proposal2)

\* A join that adopts the target's rules and enters the raft in the registry
\* whether or not its rules conflict.
JoinRaftWithOptimistic(targetRaftID, targetRules, ctx, llmProvider) ==
    AdoptRulesAndJoin(targetRaftID, targetRules)

\* JoinRaft from its second step on: targetRules is what the fetch returned
JoinRaftWith(targetRaftID, targetRules, ctx, llmProvider) ==
    \E conflicts \in ConflictOrders(targetRaftID, targetRules) :
       IF Len(conflicts) = 0
       THEN AdoptRulesAndJoin(targetRaftID, targetRules)
       ELSE LET started == StartNegotiation(targetRaftID, conflicts, ctx,
                                            llmProvider, now)
            IN /\ UNCHANGED <<rafts, rules, active, now, store, dbUp,
                              proposalsMu, frames,
                              crypto, rl, allowed, locks>>
               /\ IF started.err # Ok
                  THEN /\ last' = Call("JoinRaft", started.err)
                       /\ negotiations' =
                             Put(negotiations,
                                 started.negotiation[1].negotiationId,
                                 started.negotiation[1])
                       /\ UNCHANGED proposals
                  ELSE IF started.negotiation[1].status = NegotiationResolved
                  THEN ExecuteDualRaftVote(started.negotiation[1])
                  ELSE /\ last' = Call("JoinRaft", ErrConflictUnresolved)
                       /\ negotiations' =
                             Put(negotiations,
                                 started.negotiation[1].negotiationId,
                                 started.negotiation[1])
                       /\ UNCHANGED proposals

JoinRaft(targetRaftID, endpoint, ctx, llmProvider) ==
    JoinRaftWith(targetRaftID, FetchRaftRules(endpoint, targetRaftID), ctx,
                 llmProvider)

\* The contexts and the providers a caller passes
CtxLive == "live"
CtxDone == "done"
Contexts == {CtxLive, CtxDone}
Mediator(ok, text) == [ok |-> ok, text |-> text]
Mediators == {Mediator(TRUE, "C"), Mediator(FALSE, "")}

----------------------------------------------------------------------------
(* The node under calls of every kind: its solo raft and another otter's
   raft, the node and one peer, MaxCalls calls. *)

RuleInputs ==
    {Rule("r1", "s1", 0, "A", "", by) : by \in MemberIds}

UnknownProposal == <<"unknown">>

Counted ==
    /\ calls < MaxCalls
    /\ calls' = calls + 1

Next ==
    \/ \E raftID \in RaftIds, rule \in RuleInputs :
          Counted /\ ProposeRule(raftID, rule)
    \/ \E proposalID \in DOMAIN proposals \cup {UnknownProposal},
          voterID \in MemberIds, vote \in VoteTypes :
          Counted /\ Vote(proposalID, voterID, vote)
    \/ \E targetRaftID \in RaftIds, requesterID \in MemberIds, pk \in PublicKeys :
          Counted /\ RequestJoin(targetRaftID, requesterID, pk)
    \/ \E targetRaftID \in RaftIds :
          Counted /\ JoinRaft(targetRaftID, "endpoint", CtxLive, Mediator(TRUE, "C"))
    \/ Counted /\ CheckExpiredMembers
    \/ \E d \in 1..MaxNow : Counted /\ AdvanceClock(d)

Spec == Init /\ [][Next]_vars

----------------------------------------------------------------------------
(* The voting arithmetic: the solo raft grows one otter at a time up to
   MaxVoters + 1 members, and one proposal, plain or override, is voted on. *)

Voters == {NodeID} \cup Peers(MaxVoters)

VoteRuleInputs ==
    {Rule("r1", "s1", 0, "A", base, NodeID) : base \in {"", "r0"}}

NextVote ==
    \/ \E i \in 1..MaxVoters :
          /\ ~Has(rafts[NodeID].members, PeerNames[i])
          /\ i > 1 => Has(rafts[NodeID].members, PeerNames[i - 1])
          /\ RequestJoin(NodeID, PeerNames[i], "pk")
          /\ UNCHANGED calls
    \/ \E rule \in VoteRuleInputs :
          /\ proposals = EmptyMap
          /\ ProposeRule(NodeID, rule)
          /\ UNCHANGED calls
    \/ \E proposalID \in DOMAIN proposals, voterID \in Voters, vote \in VoteTypes :
          /\ Vote(proposalID, voterID, vote)
          /\ UNCHANGED calls

SpecVote == Init /\ [][NextVote]_vars

----------------------------------------------------------------------------
(* The node and its data directory: the calls, a database that can refuse a
   transaction, and restarts.  The first start is on an empty directory or
   on one that holds the raft of another otter with one member row. *)

StoredStates == {StateRevoked, StateLeft}

DataDirs ==
    {EmptyStore}
    \cup {SaveRaft(EmptyStore, TRUE,
                   RaftInfo(OtherRaft,
                            Put(EmptyMap, "b", Member("b", state, 0, "pk", NodeID)),
                            EmptyMap)) : state \in StoredStates}

InitStore ==
    /\ now = 0
    /\ calls = 0
    /\ dbUp = TRUE
    /\ \E st \in DataDirs :
          LET st1 == SaveRaft(st, TRUE, SelfRaft(0))
          IN /\ store = st1
             /\ rafts = [r \in {NodeID} \cup LoadedRaftIds(st1, TRUE) |->
                           IF r = NodeID THEN SelfRaft(0) ELSE LoadedRaft(st1, r)]
    /\ rules = EmptyMap
    /\ active = EmptyMap
    /\ proposals = EmptyMap
    /\ last = Call("New", Ok)
    /\ negotiations = EmptyMap
    /\ proposalsMu = NoHolder
    /\ frames = NoFrames
    /\ crypto = NodeKeys
    /\ rl = NewRateLimiter
    /\ allowed = NoneAllowed
    /\ locks = NoLocks

NextStore ==
    \/ \E raftID \in RaftIds, rule \in RuleInputs :
          Counted /\ ProposeRule(raftID, rule)
    \/ \E proposalID \in DOMAIN proposals, voterID \in MemberIds,
          vote \in VoteTypes :
          Counted /\ Vote(proposalID, voterID, vote)
    \/ \E targetRaftID \in RaftIds, requesterID \in MemberIds, pk \in PublicKeys :
          Counted /\ RequestJoin(targetRaftID, requesterID, pk)
    \/ \E targetRaftID \in RaftIds :
          Counted /\ JoinRaft(targetRaftID, "endpoint", CtxLive, Mediator(TRUE, "C"))
    \/ Counted /\ Restart
    \/ \E up \in BOOLEAN : Counted /\ SetDb(up)

SpecStore == InitStore /\ [][NextStore]_vars

----------------------------------------------------------------------------
(* The in-process calls as the package takes them: a rule of one scope, two
   overrides of it, in its scope and in another, and votes of any VoteType
   string, in the solo raft. *)

BaseRule == Rule("r0", "s1", 0, "A", "", NodeID)

OverrideInputs ==
    {Rule("r1", scope, 0, "B", "r0", NodeID) : scope \in {"s1", "s2"}}

VoteInputs == VoteTypes \cup {"MAYBE"}

NextRules ==
    \/ \E rule \in {BaseRule} \cup OverrideInputs :
          /\ ProposeRule(NodeID, rule)
          /\ UNCHANGED calls
    \/ \E proposalID \in DOMAIN proposals, voterID \in MemberIds,
          vote \in VoteInputs :
          /\ Vote(proposalID, voterID, vote)
          /\ UNCHANGED calls

SpecRules == Init /\ [][NextRules]_vars

----------------------------------------------------------------------------
(* Joining the raft of another otter whose rules the fetch has returned:
   the node adopts rules of two scopes in its solo raft, the target raft
   answers with any of its rules, and "llm-negotiation" can be inducted as
   a member. *)

JoinRuleInputs ==
    {Rule("r1", "pri", 0, "A", "", NodeID), Rule("r2", "sec", 0, "A", "", NodeID)}

\* A rule the target raft has adopted
TargetRule(ruleID, scope, body) ==
    [Rule(ruleID, scope, 0, body, "", "b") EXCEPT
        !.raftId = OtherRaft, !.adoptedAt = Some(0)]

TargetRulePool ==
    {TargetRule("t1", "pri", "B"), TargetRule("t2", "pri", "A"),
     TargetRule("t3", "sec", "B")}

\* The maps a fetch returns: rules of the pool under their ids
FetchedRuleSets ==
    {[k \in {u.ruleId : u \in pool} |->
         CHOOSE u \in pool : u.ruleId = k] : pool \in SUBSET TargetRulePool}

JoinVoters == {NodeID, LLMNegotiation}

NextJoin ==
    \/ \E rule \in JoinRuleInputs :
          Counted /\ ProposeRule(NodeID, rule)
    \/ \E proposalID \in DOMAIN proposals, voterID \in JoinVoters,
          vote \in {VoteYes, VoteNo} :
          Counted /\ Vote(proposalID, voterID, vote)
    \/ \E targetRaftID \in RaftIds :
          Counted /\ RequestJoin(targetRaftID, LLMNegotiation, "pk")
    \/ \E targetRules \in FetchedRuleSets, ctx \in Contexts,
          llmProvider \in Mediators :
          Counted /\ JoinRaftWith(OtherRaft, targetRules, ctx, llmProvider)

SpecJoin == Init /\ [][NextJoin]_vars

----------------------------------------------------------------------------
(* Vote calls of several goroutines, step by step.  A call takes
   g.proposals.mu on entry and releases it when it returns; between the two
   it validates, records the vote and checks the outcome.  ProposeRule needs
   the same lock for its insertion; RequestJoin takes none of the proposal
   registry's locks and runs between the steps of a Vote. *)

Goroutines == {"g1", "g2"}

Frame(pc, proposalID, voterID, vote, err) ==
    [pc |-> pc, proposalID |-> proposalID, voterID |-> voterID, vote |-> vote,
     err |-> err]

\* An entry that does not wait for the lock.
VoteLockShared(g, proposalID, voterID, vote) ==
    /\ ~Has(frames, g)
    /\ proposalsMu' = g
    /\ frames' = Put(frames, g, Frame("validate", proposalID, voterID, vote, Ok))
    /\ UNCHANGED <<rafts, rules, active, proposals, now, last, store, dbUp,
                   negotiations,
                   crypto, rl, allowed, locks>>

\* g.proposals.mu.Lock()
VoteLock(g, proposalID, voterID, vote) ==
    /\ ~Has(frames, g)
    /\ proposalsMu = NoHolder
    /\ proposalsMu' = g
    /\ frames' = Put(frames, g, Frame("validate", proposalID, voterID, vote, Ok))
    /\ UNCHANGED <<rafts, rules, active, proposals, now, last, store, dbUp,
                   negotiations,
                   crypto, rl, allowed, locks>>

\* The proposal, its status, the raft and the voter are looked up
VoteValidate(g) ==
    /\ Has(frames, g)
    /\ frames[g].pc = "validate"
    /\ LET err == VoteError(frames[g].proposalID, frames[g].voterID)
       IN frames' = [frames EXCEPT ![g].err = err,
                                   ![g].pc = IF err = Ok THEN "record"
                                                         ELSE "unlock"]
    /\ UNCHANGED <<rafts, rules, active, proposals, now, last, store, dbUp,
                   negotiations, proposalsMu,
                   crypto, rl, allowed, locks>>

\* proposal.Votes[voterID] = vote
VoteRecord(g) ==
    /\ Has(frames, g)
    /\ frames[g].pc = "record"
    /\ proposals' = [proposals EXCEPT ![frames[g].proposalID].votes =
                        Put(@, frames[g].voterID, frames[g].vote)]
    /\ frames' = [frames EXCEPT ![g].pc = "outcome"]
    /\ UNCHANGED <<rafts, rules, active, now, last, store, dbUp,
                   negotiations, proposalsMu,
                   crypto, rl, allowed, locks>>

\* g.checkProposalOutcome(proposal)
VoteCheckOutcome(g) ==
    /\ Has(frames, g)
    /\ frames[g].pc = "outcome"
    /\ LET decided == CheckProposalOutcome(proposals[frames[g].proposalID],
                                           rafts, now)
           reg == ActivateRule(decided.rule, rafts, rules, active, store, dbUp)
       IN /\ proposals' = [proposals EXCEPT ![frames[g].proposalID] = decided]
          /\ IF decided.status = ProposalClosed /\ decided.result = ResultAdopted
             THEN /\ rafts' = reg.rafts
                  /\ rules' = reg.rules
                  /\ active' = reg.active
                  /\ store' = reg.store
             ELSE UNCHANGED <<rafts, rules, active, store>>
    /\ frames' = [frames EXCEPT ![g].pc = "unlock"]
    /\ UNCHANGED <<now, last, dbUp, negotiations, proposalsMu,
                   crypto, rl, allowed, locks>>

\* The deferred g.proposals.mu.Unlock() and the return
VoteUnlock(g) ==
    /\ Has(frames, g)
    /\ frames[g].pc = "unlock"
    /\ proposalsMu' = NoHolder
    /\ frames' = Delete(frames, g)
    /\ last' = Call("Vote", frames[g].err)
    /\ UNCHANGED <<rafts, rules, active, proposals, now, store, dbUp,
                   negotiations,
                   crypto, rl, allowed, locks>>

ConcRule == Rule("r1", "s1", 0, "A", "", NodeID)

NextConc ==
    \/ /\ proposalsMu = NoHolder
       /\ Counted
       /\ ProposeRule(NodeID, ConcRule)
    \/ Counted /\ RequestJoin(NodeID, "b", "pk")
    \/ \E g \in Goroutines, proposalID \in DOMAIN proposals,
          voterID \in MemberIds, vote \in {VoteYes, VoteNo} :
          Counted /\ VoteLock(g, proposalID, voterID, vote)
    \/ \E g \in Goroutines : VoteValidate(g) /\ UNCHANGED calls
    \/ \E g \in Goroutines : VoteRecord(g) /\ UNCHANGED calls
    \/ \E g \in Goroutines : VoteCheckOutcome(g) /\ UNCHANGED calls
    \/ \E g \in Goroutines : VoteUnlock(g) /\ UNCHANGED calls

SpecConc == Init /\ [][NextConc]_vars

----------------------------------------------------------------------------
(* The global view of the active rules: the node joins the raft y, is
   inducted into it, and adopts rules of one scope in its two rafts and an
   override in another scope; the process restarts on its data directory. *)

\* GetActiveRules: a copy of the active index
GetActiveRules == active

\* The rule proposed in the solo raft, and the rule and its override
\* proposed in the raft y
ActiveRuleInputs ==
    {<<NodeID, Rule("r0", "s1", 0, "A", "", NodeID)>>,
     <<OtherRaft, Rule("r2", "s1", 0, "B", "", NodeID)>>,
     <<OtherRaft, Rule("r3", "s2", 0, "C", "r2", NodeID)>>}

NextActive ==
    \/ /\ JoinRaft(OtherRaft, "endpoint", CtxLive, Mediator(TRUE, "C"))
       /\ UNCHANGED calls
    \/ /\ RequestJoin(OtherRaft, NodeID, "pk")
       /\ UNCHANGED calls
    \/ \E input \in ActiveRuleInputs :
          /\ ProposeRule(input[1], input[2])
          /\ UNCHANGED calls
    \/ \E proposalID \in DOMAIN proposals, vote \in {VoteYes, VoteNo} :
          /\ Vote(proposalID, NodeID, vote)
          /\ UNCHANGED calls
    \/ /\ Restart
       /\ UNCHANGED calls

SpecActive == Init /\ [][NextActive]_vars

----------------------------------------------------------------------------
(* Sign and Verify of the CryptoSystem.  sha256 is taken free of
   collisions: the digest of a byte string is one token that stands for its
   32 bytes and holds what was hashed, so two digests are equal exactly
   when the hashed strings are. *)

Sha256(bytes) == <<bytes>>

\* GetPublicKey
GetPublicKey(cs) == cs.publicKey

\* Sign: the digest of the private key's bytes followed by the message
Sign(cs, message) == Sha256(cs.privateKey \o message)

\* Verify: the digest of the given public key followed by the message,
\* compared with the signature byte by byte
Verify(cs, message, signature, publicKey) ==
    LET expectedSig == Sha256(publicKey \o message)
    IN IF Len(signature) # Len(expectedSig)
       THEN FALSE
       ELSE \A i \in 1..Len(signature) : signature[i] = expectedSig[i]

(* The key store of any of the keys under calls of Sign and Verify, the
   messages being the byte strings of 0 and 1 up to MaxMsgLen bytes. *)

MaxMsgLen == 2

Messages == UNION {[1..n -> {0, 1}] : n \in 0..MaxMsgLen}

\* The signatures a caller can hold: those this key store or another made,
\* and a string that is no digest
Signatures ==
    {Sign(NewCryptoSystem(d), message) : d \in Scalars, message \in Messages}
    \cup {<<>>}

InitCrypto ==
    /\ now = 0
    /\ rafts = Put(EmptyMap, NodeID, SelfRaft(0))
    /\ rules = EmptyMap
    /\ active = EmptyMap
    /\ proposals = EmptyMap
    /\ last = Call("New", Ok)
    /\ calls = 0
    /\ dbUp = TRUE
    /\ store = SaveRaft(EmptyStore, TRUE, SelfRaft(0))
    /\ negotiations = EmptyMap
    /\ proposalsMu = NoHolder
    /\ frames = NoFrames
    /\ crypto \in {NewCryptoSystem(d) : d \in Scalars}
    /\ rl = NewRateLimiter
    /\ allowed = NoneAllowed
    /\ locks = NoLocks

SignCall(message) ==
    /\ last' = [op |-> "Sign", err |-> Ok, message |-> message,
                signature |-> Sign(crypto, message)]
    /\ UNCHANGED <<rafts, rules, active, proposals, now, calls, store, dbUp,
                   negotiations, proposalsMu, frames, crypto, rl, allowed,
                   locks>>

VerifyCall(message, signature, publicKey) ==
    /\ last' = [op |-> "Verify", err |-> Ok, message |-> message,
                signature |-> signature, publicKey |-> publicKey,
                valid |-> Verify(crypto, message, signature, publicKey)]
    /\ UNCHANGED <<rafts, rules, active, proposals, now, calls, store, dbUp,
                   negotiations, proposalsMu, frames, crypto, rl, allowed,
                   locks>>

NextCrypto ==
    \/ \E message \in Messages : SignCall(message)
    \/ \E message \in Messages, signature \in Signatures, d \in Scalars :
          VerifyCall(message, signature, GetPublicKey(NewCryptoSystem(d)))

SpecCrypto == InitCrypto /\ [][NextCrypto]_vars

----------------------------------------------------------------------------
(* The rules as the callers of the repository build them: the HTTP handler
   and the agent fill Scope, Body, ProposedBy, BaseRuleID and Timestamp and
   leave RuleID at its zero value.  The node proposes rules of two scopes
   and two bodies in its solo raft at the time of the clock and votes. *)

CallerRule(scope, body, baseRuleID, proposedBy, t) ==
    Rule("", scope, t, body, baseRuleID, proposedBy)

CallerRuleInputs(t) ==
    {CallerRule(scope, body, "", NodeID, t) :
        scope \in {"s1", "s2"}, body \in {"A", "B"}}

NextIds ==
    \/ \E rule \in CallerRuleInputs(now) :
          Counted /\ ProposeRule(NodeID, rule)
    \/ \E proposalID \in DOMAIN proposals, vote \in {VoteYes, VoteNo} :
          Counted /\ Vote(proposalID, NodeID, vote)
    \/ \E d \in 1..MaxNow : Counted /\ AdvanceClock(d)

SpecIds == Init /\ [][NextIds]_vars

----------------------------------------------------------------------------
(* Vote calls step by step while the membership of the raft changes: the
   node inducts b, the clock advances and the liveness monitor sweeps.  A
   sweep changes the members of a raft under the raft's lock, a Vote reads
   them under that lock in its validation and again in getActiveMembers,
   and releases it in between. *)

NextLive ==
    \/ /\ proposalsMu = NoHolder
       /\ Counted
       /\ ProposeRule(NodeID, ConcRule)
    \/ Counted /\ RequestJoin(NodeID, "b", "pk")
    \/ \E d \in 1..MaxNow : Counted /\ AdvanceClock(d)
    \/ Counted /\ CheckExpiredMembers
    \/ \E g \in Goroutines, proposalID \in DOMAIN proposals,
          voterID \in MemberIds, vote \in {VoteYes, VoteNo} :
          Counted /\ VoteLock(g, proposalID, voterID, vote)
    \/ \E g \in Goroutines : VoteValidate(g) /\ UNCHANGED calls
    \/ \E g \in Goroutines : VoteRecord(g) /\ UNCHANGED calls
    \/ \E g \in Goroutines : VoteCheckOutcome(g) /\ UNCHANGED calls
    \/ \E g \in Goroutines : VoteUnlock(g) /\ UNCHANGED calls

SpecLive == Init /\ [][NextLive]_vars

----------------------------------------------------------------------------
(* The locking of the governance calls.  A call is the sequence of its lock
   operations; where the code branches on data (a raft that is not found, a
   member that is not active, a proposal that is not decided, a database
   that is not available) the call takes any of the branches, and what it
   returns is left out.  Lock() of a
   sync.RWMutex first keeps new readers out and then waits for the holders
   to leave; RLock() waits while a writer holds the lock or is blocked in
   Lock(). *)

LockOp(mu) == [kind |-> "Lock", mu |-> mu, alts |-> {}]
UnlockOp(mu) == [kind |-> "Unlock", mu |-> mu, alts |-> {}]
RLockOp(mu) == [kind |-> "RLock", mu |-> mu, alts |-> {}]
RUnlockOp(mu) == [kind |-> "RUnlock", mu |-> mu, alts |-> {}]
\* a branch of the code: the call goes on with one of the alternatives
Choose(alts) == [kind |-> "Choose", mu |-> "", alts |-> alts]

\* The orders in which a range over a map of rafts visits the rafts of S,
\* for every registry the node can hold
Visits(S) ==
    UNION {{s \in [1..Cardinality(T) -> T] :
               \A i, j \in 1..Cardinality(T) : i # j => s[i] # s[j]} :
           T \in SUBSET S}

RECURSIVE Flatten(_)
Flatten(ss) == IF ss = <<>> THEN <<>> ELSE Head(ss) \o Flatten(Tail(ss))

\* ProposeRule, followed by k when it returns a proposal
ProposeRuleLocks(raftID, k) ==
    <<LockOp("g.mu"), RLockOp("g.rafts.mu"), RUnlockOp("g.rafts.mu"),
      Choose({
        <<UnlockOp("g.mu")>>,
        <<RLockOp(RaftMu(raftID)), RUnlockOp(RaftMu(raftID)),
          Choose({
            <<UnlockOp("g.mu")>>,
            <<LockOp("g.proposals.mu"), UnlockOp("g.proposals.mu"),
              UnlockOp("g.mu")>> \o k})>>})>>

\* activateRule
ActivateRuleLocks(raftID) ==
    <<LockOp("g.rules.mu"), UnlockOp("g.rules.mu"),
      RLockOp("g.rafts.mu"), RUnlockOp("g.rafts.mu"),
      Choose({<<>>, <<LockOp(RaftMu(raftID)), UnlockOp(RaftMu(raftID))>>}),
      Choose({<<>>, <<LockOp("g.rules.mu"), UnlockOp("g.rules.mu")>>})>>

\* checkProposalOutcome with its getActiveMembers
CheckProposalOutcomeLocks(raftID) ==
    <<RLockOp("g.rafts.mu"), RUnlockOp("g.rafts.mu"),
      Choose({
        <<>>,
        <<RLockOp(RaftMu(raftID)), RUnlockOp(RaftMu(raftID)),
          Choose({<<>>, ActivateRuleLocks(raftID)})>>})>>

\* Vote on a proposal of the raft
VoteLocks(raftID) ==
    <<LockOp("g.proposals.mu"),
      Choose({
        <<>>,
        <<RLockOp("g.rafts.mu"), RUnlockOp("g.rafts.mu"),
          Choose({
            <<>>,
            <<RLockOp(RaftMu(raftID)), RUnlockOp(RaftMu(raftID)),
              Choose({<<>>, CheckProposalOutcomeLocks(raftID)})>>})>>}),
      UnlockOp("g.proposals.mu")>>

\* RequestJoin
RequestJoinLocks(targetRaftID) ==
    <<RLockOp("g.rafts.mu"), RUnlockOp("g.rafts.mu"),
      Choose({<<>>,
              <<LockOp(RaftMu(targetRaftID)), UnlockOp(RaftMu(targetRaftID))>>})>>

\* saveRaft: the raft's lock is held while its members and rules are written
SaveRaftLocks(raftID) ==
    <<Choose({<<>>, <<RLockOp(RaftMu(raftID)), RUnlockOp(RaftMu(raftID))>>})>>

\* detectRuleConflicts
DetectRuleConflictsLocks(targetRaftID) ==
    <<RLockOp("g.rafts.mu"),
      Choose({Flatten([i \in 1..Len(s) |->
                          <<RLockOp(RaftMu(s[i])), RUnlockOp(RaftMu(s[i]))>>]) :
                 s \in Visits(RaftIds \ {targetRaftID})}),
      RUnlockOp("g.rafts.mu")>>

\* adoptRulesAndJoin
AdoptRulesAndJoinLocks(targetRaftID) ==
    <<LockOp("g.rafts.mu"), UnlockOp("g.rafts.mu")>>
    \o SaveRaftLocks(targetRaftID)

\* startNegotiation
StartNegotiationLocks ==
    <<LockOp("g.negotiations.mu"), UnlockOp("g.negotiations.mu")>>

\* executeDualRaftVote
ExecuteDualRaftVoteLocks(raft1ID, raft2ID) ==
    ProposeRuleLocks(raft1ID, ProposeRuleLocks(raft2ID, <<>>))

\* JoinRaft
JoinRaftLocks(targetRaftID) ==
    DetectRuleConflictsLocks(targetRaftID)
    \o <<Choose({AdoptRulesAndJoinLocks(targetRaftID)}
                \cup {StartNegotiationLocks
                         \o ExecuteDualRaftVoteLocks(raft1ID, targetRaftID) :
                      raft1ID \in RaftIds \ {targetRaftID}})>>

\* A sweep that takes the lock of a raft before the lock of the registry.
CheckExpiredMembersLocksInverted ==
    <<Choose({Flatten([i \in 1..Len(s) |->
                          <<LockOp(RaftMu(s[i])), LockOp("g.rafts.mu"),
                            UnlockOp("g.rafts.mu"), UnlockOp(RaftMu(s[i]))>>]) :
                 s \in Visits(RaftIds)})>>

\* checkExpiredMembers
CheckExpiredMembersLocks ==
    <<LockOp("g.rafts.mu"),
      Choose({Flatten([i \in 1..Len(s) |->
                          <<LockOp(RaftMu(s[i])), UnlockOp(RaftMu(s[i]))>>]) :
                 s \in Visits(RaftIds)}),
      UnlockOp("g.rafts.mu")>>

\* The goroutines of the API calls and the goroutine of livenessMonitor
Monitor == "monitor"
Callers == Goroutines \cup {Monitor}

LockFrame(op, todo) == [op |-> op, todo |-> todo]

\* The calls a goroutine can make
Programs(g) ==
    IF g = Monitor
    THEN {LockFrame("checkExpiredMembers", CheckExpiredMembersLocks)}
    ELSE {LockFrame("ProposeRule", ProposeRuleLocks(r, <<>>)) : r \in RaftIds}
         \cup {LockFrame("Vote", VoteLocks(r)) : r \in RaftIds}
         \cup {LockFrame("RequestJoin", RequestJoinLocks(r)) : r \in RaftIds}
         \cup {LockFrame("JoinRaft", JoinRaftLocks(r)) : r \in RaftIds}
         \cup {LockFrame("saveRaft", SaveRaftLocks(r)) : r \in RaftIds}

\* The calls that go on from a point of the code: each branch that is
\* reached there is taken one way or the other
RECURSIVE Resolved(_)
Resolved(todo) ==
    IF todo = <<>> \/ Head(todo).kind # "Choose"
    THEN {todo}
    ELSE UNION {Resolved(alt \o Tail(todo)) : alt \in Head(todo).alts}

Running(g) == Has(frames, g) /\ frames[g].todo # <<>>
NextOp(g) == Head(frames[g].todo)

\* The call goes on after its next n lock operations
Advance(g, n) ==
    \E todo \in Resolved(SubSeq(frames[g].todo, n + 1, Len(frames[g].todo))) :
       frames' = [frames EXCEPT ![g].todo = todo]

\* The lock is released by the next operation of the call: nothing is
\* locked in between, and the critical section is one step
Leaf(g) ==
    /\ Len(frames[g].todo) >= 2
    /\ frames[g].todo[2].mu = NextOp(g).mu
    /\ frames[g].todo[2].kind \in {"Unlock", "RUnlock"}

CanLock(g, mu) == locks[mu].writer = NoHolder /\ locks[mu].readers = {}
CanRLock(g, mu) == locks[mu].writer = NoHolder /\ locks[mu].waiting = {}

UnchangedData ==
    UNCHANGED <<rafts, rules, active, proposals, now, last, calls, store, dbUp,
                negotiations, proposalsMu, crypto, rl, allowed>>

\* The call begins
Start(g, frame) ==
    /\ ~Has(frames, g)
    /\ \E todo \in Resolved(frame.todo) :
          frames' = Put(frames, g, LockFrame(frame.op, todo))
    /\ UNCHANGED locks
    /\ UnchangedData

\* mu.Lock() finds the lock taken and blocks: new readers are kept out
LockWait(g) ==
    /\ Running(g)
    /\ NextOp(g).kind = "Lock"
    /\ g \notin locks[NextOp(g).mu].waiting
    /\ ~CanLock(g, NextOp(g).mu)
    /\ locks' = [locks EXCEPT ![NextOp(g).mu].waiting = @ \cup {g}]
    /\ UNCHANGED frames
    /\ UnchangedData

\* mu.Lock() returns
Lock(g) ==
    /\ Running(g)
    /\ NextOp(g).kind = "Lock"
    /\ CanLock(g, NextOp(g).mu)
    /\ IF Leaf(g)
       THEN /\ locks' = [locks EXCEPT ![NextOp(g).mu].waiting = @ \ {g}]
            /\ Advance(g, 2)
       ELSE /\ locks' = [locks EXCEPT ![NextOp(g).mu].writer = g,
                                      ![NextOp(g).mu].waiting = @ \ {g}]
            /\ Advance(g, 1)
    /\ UnchangedData

\* mu.RLock() returns
RLock(g) ==
    /\ Running(g)
    /\ NextOp(g).kind = "RLock"
    /\ CanRLock(g, NextOp(g).mu)
    /\ IF Leaf(g)
       THEN UNCHANGED locks /\ Advance(g, 2)
       ELSE /\ locks' = [locks EXCEPT ![NextOp(g).mu].readers = @ \cup {g}]
            /\ Advance(g, 1)
    /\ UnchangedData

\* mu.Unlock()
Unlock(g) ==
    /\ Running(g)
    /\ NextOp(g).kind = "Unlock"
    /\ locks' = [locks EXCEPT ![NextOp(g).mu].writer = NoHolder]
    /\ Advance(g, 1)
    /\ UnchangedData

\* mu.RUnlock()
RUnlock(g) ==
    /\ Running(g)
    /\ NextOp(g).kind = "RUnlock"
    /\ locks' = [locks EXCEPT ![NextOp(g).mu].readers = @ \ {g}]
    /\ Advance(g, 1)
    /\ UnchangedData

\* The call returns
Return(g) ==
    /\ Has(frames, g)
    /\ frames[g].todo = <<>>
    /\ frames' = Delete(frames, g)
    /\ UNCHANGED locks
    /\ UnchangedData

\* A step of a call that has begun
Step(g) ==
    \/ LockWait(g)
    \/ Lock(g)
    \/ RLock(g)
    \/ Unlock(g)
    \/ RUnlock(g)
    \/ Return(g)

NextLocks ==
    \/ \E g \in Callers : \E frame \in Programs(g) : Start(g, frame)
    \/ \E g \in Callers : LockWait(g)
    \/ \E g \in Callers : Lock(g)
    \/ \E g \in Callers : RLock(g)
    \/ \E g \in Callers : Unlock(g)
    \/ \E g \in Callers : RUnlock(g)
    \/ \E g \in Callers : Return(g)

SpecLocks == Init /\ [][NextLocks]_vars

\* The scheduler runs every goroutine that can run, and a goroutine blocked
\* on a mutex that is released again and again gets it in the end
SpecLocksFair == SpecLocks /\ \A g \in Callers : SF_vars(Step(g))

----------------------------------------------------------------------------
(* The membership of the solo raft changes while one proposal is open:
   otters are inducted, the clock advances, the liveness monitor sweeps,
   and the members vote in between. *)

MaxJoiners == 2     \* otters that ask to join the solo raft under SpecChurn

NextChurn ==
    \/ \E requesterID \in Peers(MaxJoiners) :
          /\ RequestJoin(NodeID, requesterID, "pk")
          /\ UNCHANGED calls
    \/ \E rule \in VoteRuleInputs :
          /\ proposals = EmptyMap
          /\ ProposeRule(NodeID, rule)
          /\ UNCHANGED calls
    \/ \E proposalID \in DOMAIN proposals,
          voterID \in {NodeID} \cup Peers(MaxJoiners), vote \in VoteTypes :
          /\ Vote(proposalID, voterID, vote)
          /\ UNCHANGED calls
    \/ /\ AdvanceClock(1)
       /\ UNCHANGED calls
    \/ /\ CheckExpiredMembers
       /\ UNCHANGED calls

SpecChurn == Init /\ [][NextChurn]_vars

----------------------------------------------------------------------------
(* RateLimiter.  Allow reads the clock, looks its client object up under
   rl.mu, creating it when the identifier is unknown, releases rl.mu, and
   then works on the object under the object's own lock.  The cleanup
   goroutine wakes on each tick of its ticker, holds rl.mu over one pass
   through the map and takes each object's lock in turn.  A section under
   one clientRate.mu blocks on nothing and is one step. *)

MaxRateNow == 5         \* the clock of SpecRate stops here
MaxAllows == 3          \* calls of Allow under SpecRate
CleanupInterval == 5    \* CleanupInterval, in windows
Identifiers == {"ip1", "ip2"}
Cleaner == "cleanup"
RefOrder == <<"c1", "c2", "c3", "c4">>

Restrict(m, S) == [k \in S |-> m[k]]

\* The clientRate objects reachable from the map or from a running call;
\* the others are garbage
HeldRefs(fs) ==
    {fs[g].client : g \in {h \in DOMAIN fs : fs[h].op = "Allow" /\ fs[h].pc = "check"}}

Collect(limiter, fs) ==
    [limiter EXCEPT !.clients =
        Restrict(limiter.clients,
                 DOMAIN limiter.clients
                    \cap ({limiter.requests[id] : id \in DOMAIN limiter.requests}
                             \cup HeldRefs(fs)))]

\* &clientRate{...}: the first address not in use
NewClientRef(limiter) ==
    RefOrder[CHOOSE i \in 1..Len(RefOrder) :
                /\ RefOrder[i] \notin DOMAIN limiter.clients
                /\ \A j \in 1..(i - 1) : RefOrder[j] \in DOMAIN limiter.clients]

UnchangedGovernance ==
    UNCHANGED <<rafts, rules, active, proposals, store, dbUp, negotiations,
                proposalsMu, crypto>>

\* now := time.Now()
AllowEnter(g, identifier) ==
    /\ ~Has(frames, g)
    /\ frames' = Put(frames, g, [op |-> "Allow", pc |-> "lookup",
                                 identifier |-> identifier, now |-> now,
                                 client |-> ""])
    /\ UNCHANGED <<now, last, rl, allowed, locks>>
    /\ UnchangedGovernance

\* rl.mu.Lock() ... rl.mu.Unlock()
AllowLookup(g) ==
    /\ Has(frames, g)
    /\ frames[g].op = "Allow"
    /\ frames[g].pc = "lookup"
    /\ locks["rl.mu"].writer = NoHolder
    /\ LET identifier == frames[g].identifier
       IN IF Has(rl.requests, identifier)
          THEN /\ frames' = [frames EXCEPT ![g].pc = "check",
                                           ![g].client = rl.requests[identifier]]
               /\ rl' = rl
          ELSE /\ DOMAIN rl.clients # ClientRefs
               /\ LET client == NewClientRef(rl)
                  IN /\ frames' = [frames EXCEPT ![g].pc = "check",
                                                 ![g].client = client]
                     /\ rl' = [rl EXCEPT
                                  !.clients = Put(rl.clients, client, <<>>),
                                  !.requests = Put(rl.requests, identifier, client)]
    /\ UNCHANGED <<now, last, allowed, locks>>
    /\ UnchangedGovernance

\* The timestamps after the cutoff, in their order
ValidTimestamps(timestamps, cutoff) ==
    LET After(ts) == ts > cutoff
    IN SelectSeq(timestamps, After)

\* client.mu.Lock() ... return, the deferred client.mu.Unlock() included
AllowCheck(g) ==
    /\ Has(frames, g)
    /\ frames[g].op = "Allow"
    /\ frames[g].pc = "check"
    /\ LET client == frames[g].client
           valid == ValidTimestamps(rl.clients[client], frames[g].now - RateWindow)
           admit == ~(Len(valid) >= RateLimit)
       IN /\ frames' = Restrict(frames, DOMAIN frames \ {g})
          /\ rl' = Collect([rl EXCEPT !.clients[client] =
                               IF admit THEN Append(valid, frames[g].now)
                               ELSE valid], frames')
          /\ allowed' = IF admit
                        THEN Append(allowed, [identifier |-> frames[g].identifier,
                                              at |-> frames[g].now])
                        ELSE allowed
          /\ last' = [op |-> "Allow", err |-> Ok, allowed |-> admit]
    /\ UNCHANGED <<now, locks>>
    /\ UnchangedGovernance

\* for range ticker.C { rl.mu.Lock(); now := time.Now(); ...
CleanupTick ==
    /\ ~Has(frames, Cleaner)
    /\ now >= (rl.ticks + 1) * CleanupInterval
    /\ locks["rl.mu"].writer = NoHolder
    /\ locks' = [locks EXCEPT !["rl.mu"].writer = Cleaner]
    /\ frames' = Put(frames, Cleaner, [op |-> "cleanup", now |-> now,
                                      todo |-> DOMAIN rl.requests])
    /\ rl' = [rl EXCEPT !.ticks = rl.ticks + 1]
    /\ UNCHANGED <<now, last, allowed>>
    /\ UnchangedGovernance

\* A clientRate is stale when it has no timestamp or its last one is older
\* than two windows
Stale(timestamps, t) ==
    \/ Len(timestamps) = 0
    \/ timestamps[Len(timestamps)] < t - 2 * RateWindow

\* One iteration of the range over rl.requests
CleanupVisit(id) ==
    /\ Has(frames, Cleaner)
    /\ id \in frames[Cleaner].todo
    /\ frames' = [frames EXCEPT ![Cleaner].todo = @ \ {id}]
    /\ rl' = IF Stale(rl.clients[rl.requests[id]], frames[Cleaner].now)
             THEN Collect([rl EXCEPT !.requests =
                              Restrict(rl.requests, DOMAIN rl.requests \ {id})],
                          frames')
             ELSE rl
    /\ UNCHANGED <<now, last, allowed, locks>>
    /\ UnchangedGovernance

\* rl.mu.Unlock() at the end of the pass
CleanupUnlock ==
    /\ Has(frames, Cleaner)
    /\ frames[Cleaner].todo = {}
    /\ frames' = Restrict(frames, DOMAIN frames \ {Cleaner})
    /\ locks' = [locks EXCEPT !["rl.mu"].writer = NoHolder]
    /\ UNCHANGED <<now, last, rl, allowed>>
    /\ UnchangedGovernance

RateTick ==
    /\ now < MaxRateNow
    /\ now' = now + 1
    /\ UNCHANGED <<last, rl, allowed, locks, frames>>
    /\ UnchangedGovernance

NextRate ==
    \/ \E g \in Goroutines, identifier \in Identifiers :
          /\ calls < MaxAllows
          /\ calls' = calls + 1
          /\ AllowEnter(g, identifier)
    \/ \E g \in Goroutines : AllowLookup(g) /\ UNCHANGED calls
    \/ \E g \in Goroutines : AllowCheck(g) /\ UNCHANGED calls
    \/ CleanupTick /\ UNCHANGED calls
    \/ \E id \in Identifiers : CleanupVisit(id) /\ UNCHANGED calls
    \/ CleanupUnlock /\ UNCHANGED calls
    \/ RateTick /\ UNCHANGED calls

SpecRate == Init /\ [][NextRate]_vars

----------------------------------------------------------------------------
(* What the properties speak of *)

Otters == MemberIds \cup Voters

ActiveCount(raftID) == Cardinality(GetActiveMembers(rafts, raftID))

\* The least k with k * b >= a
Ceil(a, b) == CHOOSE k \in 0..a : k * b >= a /\ (k - 1) * b < a

Cast(proposal) == Cardinality(DOMAIN proposal.votes)
Yes(proposal) == CountVotes(proposal.votes, VoteYes)
No(proposal) == CountVotes(proposal.votes, VoteNo)

IsOpen(proposal) ==
    proposal.status = ProposalOpen /\ proposal.result = ResultPending

IsClosedAs(proposal, result) ==
    proposal.status = ProposalClosed /\ proposal.result = result

\* This step is the call Vote(proposalID, voterID, vote) returning no error.
VoteOk(proposalID, voterID, vote) ==
    /\ Has(proposals, proposalID)
    /\ Vote(proposalID, voterID, vote)
    /\ last'.err = Ok

----------------------------------------------------------------------------
(* C1: in a raft with exactly one active member, the first vote recorded on
   an open proposal closes it: adopted on YES, rejected on NO or ABSTAIN,
   with quorumMet true. *)

C1Step(proposalID, voterID, vote) ==
    ( /\ VoteOk(proposalID, voterID, vote)
      /\ DOMAIN proposals[proposalID].votes = {}
      /\ ActiveCount(proposals[proposalID].raftId) = 1 )
    => /\ proposals'[proposalID].quorumMet
       /\ IsClosedAs(proposals'[proposalID],
                     IF vote = VoteYes THEN ResultAdopted ELSE ResultRejected)

----------------------------------------------------------------------------
(* C2: in a raft with exactly two active members, both of them the only
   otters with a vote on the proposal (as they are when the membership has
   not changed while the proposal is open), the proposal stays open and
   pending after the first member's vote, and the vote that completes the
   pair closes it: adopted if and only if both votes are YES, rejected
   otherwise. *)

C2Step(proposalID, voterID, vote) ==
    ( /\ VoteOk(proposalID, voterID, vote)
      /\ ActiveCount(proposals[proposalID].raftId) = 2
      /\ DOMAIN proposals'[proposalID].votes
            \subseteq GetActiveMembers(rafts, proposals[proposalID].raftId) )
    => IF Cast(proposals'[proposalID]) < 2
       THEN IsOpen(proposals'[proposalID])
       ELSE IsClosedAs(proposals'[proposalID],
                       IF \A k \in DOMAIN proposals'[proposalID].votes :
                             proposals'[proposalID].votes[k] = VoteYes
                       THEN ResultAdopted ELSE ResultRejected)

C2DuoUnanimity ==
    [][\A proposalID \in DOMAIN proposals, voterID \in Otters, vote \in VoteTypes :
          C2Step(proposalID, voterID, vote)]_vars

\* Two otters have voted YES and ABSTAIN and the proposal is rejected.
C2Witness ==
    /\ last = Call("Vote", Ok)
    /\ \E proposalID \in DOMAIN proposals :
          /\ ActiveCount(proposals[proposalID].raftId) = 2
          /\ DOMAIN proposals[proposalID].votes
                = GetActiveMembers(rafts, proposals[proposalID].raftId)
          /\ Yes(proposals[proposalID]) = 1
          /\ No(proposals[proposalID]) = 0
          /\ IsClosedAs(proposals[proposalID], ResultRejected)

----------------------------------------------------------------------------
(* C3: in a raft with N >= 3 active members, after every vote quorumMet
   equals (votes cast >= ceil(2N/3)), and the proposal is still open and
   pending while fewer than ceil(2N/3) votes have been cast. *)

C3Step(proposalID, voterID, vote) ==
    LET N == ActiveCount(proposals[proposalID].raftId)
    IN ( VoteOk(proposalID, voterID, vote) /\ N >= 3 )
       => /\ proposals'[proposalID].quorumMet
               = (Cast(proposals'[proposalID]) >= Ceil(2 * N, 3))
          /\ Cast(proposals'[proposalID]) < Ceil(2 * N, 3)
               => IsOpen(proposals'[proposalID])

C3Quorum ==
    [][\A proposalID \in DOMAIN proposals, voterID \in Otters, vote \in VoteTypes :
          C3Step(proposalID, voterID, vote)]_vars

\* Four otters, two votes cast: one short of the quorum of three.
C3Witness ==
    /\ last = Call("Vote", Ok)
    /\ \E proposalID \in DOMAIN proposals :
          /\ ActiveCount(proposals[proposalID].raftId) = 4
          /\ Cast(proposals[proposalID]) = 2
          /\ Yes(proposals[proposalID]) = 2
          /\ ~proposals[proposalID].quorumMet
          /\ IsOpen(proposals[proposalID])

----------------------------------------------------------------------------
(* C4: in a raft with N >= 3 active members, a vote on a proposal whose rule
   has no baseRuleId leaves it adopted, and closed, exactly when the YES
   votes then number at least ceil(2N/3), whether or not the other members
   have voted. *)

C4Step(proposalID, voterID, vote) ==
    LET N == ActiveCount(proposals[proposalID].raftId)
    IN ( /\ VoteOk(proposalID, voterID, vote)
         /\ N >= 3
         /\ proposals[proposalID].rule.baseRuleId = "" )
       => /\ (proposals'[proposalID].result = ResultAdopted)
               = (Yes(proposals'[proposalID]) >= Ceil(2 * N, 3))
          /\ proposals'[proposalID].result = ResultAdopted
               => proposals'[proposalID].status = ProposalClosed

C4TwoThirdsAdopts ==
    [][\A proposalID \in DOMAIN proposals, voterID \in Otters, vote \in VoteTypes :
          C4Step(proposalID, voterID, vote)]_vars

\* Four otters: the third YES has adopted the rule before the fourth voted.
C4Witness ==
    /\ last = Call("Vote", Ok)
    /\ \E proposalID \in DOMAIN proposals :
          /\ ActiveCount(proposals[proposalID].raftId) = 4
          /\ proposals[proposalID].rule.baseRuleId = ""
          /\ Cast(proposals[proposalID]) = 3
          /\ Yes(proposals[proposalID]) = 3
          /\ IsClosedAs(proposals[proposalID], ResultAdopted)

----------------------------------------------------------------------------
(* C5: in a raft with N >= 3 active members, a vote on an override proposal
   (its rule carries a baseRuleId) leaves it adopted exactly when the YES
   votes then number at least ceil(3N/4); with N = 5, three YES and one NO
   leave it open, three YES and two NO reject it, four YES adopt it. *)

C5Step(proposalID, voterID, vote) ==
    LET N == ActiveCount(proposals[proposalID].raftId)
        after == proposals'[proposalID]
    IN ( /\ VoteOk(proposalID, voterID, vote)
         /\ N >= 3
         /\ proposals[proposalID].rule.baseRuleId # "" )
       => /\ (after.result = ResultAdopted) = (Yes(after) >= Ceil(3 * N, 4))
          /\ after.result = ResultAdopted => after.status = ProposalClosed
          /\ (N = 5 /\ Cast(after) = 4 /\ Yes(after) = 3 /\ No(after) = 1)
               => IsOpen(after)
          /\ (N = 5 /\ Cast(after) = 5 /\ Yes(after) = 3 /\ No(after) = 2)
               => IsClosedAs(after, ResultRejected)
          /\ (N = 5 /\ Yes(after) = 4) => IsClosedAs(after, ResultAdopted)

----------------------------------------------------------------------------
(* C6: in a raft with N >= 3 active members, the vote that makes the number
   of votes cast reach N closes the proposal, adopted if the YES threshold
   (ceil(3N/4) for an override, ceil(2N/3) otherwise) is met and rejected
   otherwise, whatever the votes are, all ABSTAIN included. *)

C6Step(proposalID, voterID, vote) ==
    LET N == ActiveCount(proposals[proposalID].raftId)
        after == proposals'[proposalID]
        threshold == IF after.rule.baseRuleId # ""
                     THEN Ceil(3 * N, 4) ELSE Ceil(2 * N, 3)
    IN ( /\ VoteOk(proposalID, voterID, vote)
         /\ N >= 3
         /\ Cast(proposals[proposalID]) < N
         /\ Cast(after) >= N )
       => IsClosedAs(after, IF Yes(after) >= threshold
                            THEN ResultAdopted ELSE ResultRejected)

C6AllVotedCloses ==
    [][\A proposalID \in DOMAIN proposals, voterID \in Otters, vote \in VoteTypes :
          C6Step(proposalID, voterID, vote)]_vars

----------------------------------------------------------------------------
(* C7: a proposal's lifecycle is monotonic.  Its result only ever moves from
   pending to adopted or to rejected, together with status open -> closed
   and closedAt becoming set; every closed proposal has result adopted or
   rejected and a closedAt; and once it is closed no later operation (Vote,
   ProposeRule, RequestJoin, JoinRaft, liveness tick) changes its status,
   result, closedAt or votes. *)

C7Closed(proposal) ==
    proposal.status = ProposalClosed
    => /\ proposal.result \in {ResultAdopted, ResultRejected}
       /\ proposal.closedAt # None

C7Step(proposalID) ==
    LET before == proposals[proposalID]
        after == proposals'[proposalID]
    IN /\ Has(proposals', proposalID)
       /\ before.status = ProposalClosed
            => /\ after.status = before.status
               /\ after.result = before.result
               /\ after.closedAt = before.closedAt
               /\ after.votes = before.votes
       /\ (after.result # before.result \/ after.status # before.status
           \/ after.closedAt # before.closedAt)
            => /\ IsOpen(before)
               /\ before.closedAt = None
               /\ after.status = ProposalClosed
       /\ C7Closed(after)

C7Lifecycle ==
    [][/\ \A proposalID \in DOMAIN proposals : C7Step(proposalID)
       /\ \A proposalID \in DOMAIN proposals' : C7Closed(proposals'[proposalID])]_vars

----------------------------------------------------------------------------
(* C8: there is at most one active rule for each (raftId, scope), and
   adopting a new rule for scope S in raft R makes it the active rule for
   (R, S), in place of the rule active for (R, S) before, without changing
   which rule is active for S in any other raft. *)

\* The rules of the active index that belong to the raft, for the scope.
ActiveFor(act, raftID, scope) ==
    IF Has(act, scope) /\ act[scope].raftId = raftID THEN {act[scope]} ELSE {}

C8Step(proposalID, voterID, vote) ==
    LET rule == proposals'[proposalID].rule
    IN ( /\ VoteOk(proposalID, voterID, vote)
         /\ proposals'[proposalID].result = ResultAdopted )
       => /\ ActiveFor(active', rule.raftId, rule.scope) = {rule}
          /\ \A other \in DOMAIN rafts \ {rule.raftId} :
                ActiveFor(active', other, rule.scope)
                   = ActiveFor(active, other, rule.scope)

C8OneActivePerRaftScope ==
    [][/\ \A raftID \in DOMAIN rafts', scope \in DOMAIN active' :
             Cardinality(ActiveFor(active', raftID, scope)) <= 1
       /\ \A proposalID \in DOMAIN proposals, voterID \in Otters,
             vote \in VoteTypes : C8Step(proposalID, voterID, vote)]_vars

----------------------------------------------------------------------------
(* C9: ProposeRule(raftId, rule) returns an error, creates no proposal and
   changes no state when raftId is not in the raft registry or when
   rule.proposedBy is not an active member of that raft; when it succeeds
   the new proposal is open with result pending and no votes, its raftId is
   the call's raftId and its rule is the caller's with raftId set to it. *)

C9Step(raftID, rule) ==
    ProposeRule(raftID, rule)
    => IF ~Has(rafts, raftID)
       THEN /\ last'.err = ErrRaftNotFound
            /\ UNCHANGED <<rafts, rules, active, proposals, now>>
       ELSE IF ~IsActive(rafts, raftID, rule.proposedBy)
       THEN /\ last'.err = ErrMemberNotActive
            /\ UNCHANGED <<rafts, rules, active, proposals, now>>
       ELSE /\ last'.err = Ok
            /\ UNCHANGED <<rafts, rules, active, now>>
            /\ \E proposalID \in DOMAIN proposals' :
                  /\ IsOpen(proposals'[proposalID])
                  /\ DOMAIN proposals'[proposalID].votes = {}
                  /\ proposals'[proposalID].raftId = raftID
                  /\ proposals'[proposalID].rule = [rule EXCEPT !.raftId = raftID]
                  /\ proposals'[proposalID].proposedBy = rule.proposedBy
                  /\ \A q \in DOMAIN proposals' \ {proposalID} :
                        Has(proposals, q) /\ proposals'[q] = proposals[q]

C9ProposePreconditions ==
    [][\A raftID \in RaftIds, rule \in RuleInputs \cup VoteRuleInputs :
          C9Step(raftID, rule)]_vars

\* An expired member's proposal has been refused and no proposal exists.
C9Witness ==
    /\ last = Call("ProposeRule", ErrMemberNotActive)
    /\ proposals = EmptyMap
    /\ \E raftID \in DOMAIN rafts :
          /\ DOMAIN rafts[raftID].members = MemberIds
          /\ GetActiveMembers(rafts, raftID) = {}

----------------------------------------------------------------------------
(* C10: Vote(proposalId, voterId, v) by a voter who is not an active member
   of the proposal's raft returns an error, MemberNotActive when the
   proposal is open, and leaves every proposal as it was; hence whenever a
   vote is recorded in a proposal's votes map, its key is an active member
   of the proposal's raft. *)

C10Step(proposalID, voterID, vote) ==
    ( /\ Has(proposals, proposalID)
      /\ Vote(proposalID, voterID, vote)
      /\ ~IsActive(rafts, proposals[proposalID].raftId, voterID) )
    => /\ last'.err # Ok
       /\ IsOpen(proposals[proposalID]) => last'.err = ErrMemberNotActive
       /\ UNCHANGED <<rafts, rules, active, proposals, now>>

C10Recorded(proposalID, voterID) ==
    ( \/ ~Has(proposals, proposalID)
      \/ ~Has(proposals[proposalID].votes, voterID)
      \/ proposals[proposalID].votes[voterID]
            # proposals'[proposalID].votes[voterID] )
    => IsActive(rafts, proposals'[proposalID].raftId, voterID)

----------------------------------------------------------------------------
(* C11: Vote called with a vote type other than YES, NO or ABSTAIN is
   reported as an InvalidVoteType error, adds or changes no entry of the
   proposal's votes map and does not evaluate the outcome: the proposal is as
   it was. *)

ErrInvalidVoteType == "InvalidVoteType"

C11Step(proposalID, voterID, vote) ==
    ( /\ Has(proposals, proposalID)
      /\ Vote(proposalID, voterID, vote)
      /\ vote \notin VoteTypes )
    => /\ last'.err # Ok
       /\ IsActive(rafts, proposals[proposalID].raftId, voterID)
             /\ IsOpen(proposals[proposalID])
          => last'.err = ErrInvalidVoteType
       /\ proposals'[proposalID] = proposals[proposalID]

C11InvalidVoteType ==
    [][\A proposalID \in DOMAIN proposals, voterID \in Otters,
          vote \in VoteInputs : C11Step(proposalID, voterID, vote)]_vars

----------------------------------------------------------------------------
(* C12: a proposal's votes map holds one entry per member.  A vote by an
   active voter who already has an entry on a still-open proposal replaces
   that entry: the voters with an entry, and so the number of votes cast,
   stay the same, the other entries are kept, and the outcome is decided on
   the latest vote of each voter: the proposal is adopted exactly when the
   YES entries now in the map meet the threshold of the raft's size. *)

\* The YES votes that adopt a proposal in a raft of n active members
YesNeeded(n, override) ==
    IF n <= 2 THEN n
    ELSE IF override THEN Ceil(3 * n, 4) ELSE Ceil(2 * n, 3)

C12Step(proposalID, voterID, vote) ==
    LET before == proposals[proposalID]
        after == proposals'[proposalID]
    IN ( /\ VoteOk(proposalID, voterID, vote)
         /\ Has(before.votes, voterID) )
       => /\ DOMAIN after.votes = DOMAIN before.votes
          /\ Cast(after) = Cast(before)
          /\ after.votes[voterID] = vote
          /\ \A k \in DOMAIN before.votes \ {voterID} :
                after.votes[k] = before.votes[k]
          /\ after.result = ResultAdopted
                <=> Yes(after) >= YesNeeded(ActiveCount(before.raftId),
                                            before.rule.baseRuleId # "")

C12RevoteOverwrites ==
    [][\A proposalID \in DOMAIN proposals, voterID \in Otters,
          vote \in VoteTypes : C12Step(proposalID, voterID, vote)]_vars

\* A vote has been taken on a proposal that is still open after it, where a
\* member with a NO entry can vote again and the YES entries are one short
\* of adopting it.
C12Witness ==
    /\ last = Call("Vote", Ok)
    /\ \E proposalID \in DOMAIN proposals :
          /\ IsOpen(proposals[proposalID])
          /\ ActiveCount(proposals[proposalID].raftId) = 3
          /\ Cast(proposals[proposalID]) = 2
          /\ Yes(proposals[proposalID]) = 1
          /\ No(proposals[proposalID]) = 1
          /\ DOMAIN proposals[proposalID].votes
                \subseteq GetActiveMembers(rafts, proposals[proposalID].raftId)

----------------------------------------------------------------------------
(* C13: when a vote makes a proposal adopted, afterwards the proposal is
   closed with result adopted, its rule's adoptedAt is set and equals the
   proposal's closedAt, and the rule is in the rule registry's ruleId index,
   in its active-by-scope index and in the rules of the raft named by the
   proposal's raftId. *)

C13Step(proposalID, voterID, vote) ==
    LET after == proposals'[proposalID]
        rule == after.rule
    IN ( /\ VoteOk(proposalID, voterID, vote)
         /\ after.result = ResultAdopted )
       => /\ IsClosedAs(after, ResultAdopted)
          /\ after.closedAt # None
          /\ rule.adoptedAt = after.closedAt
          /\ Has(rules', rule.ruleId) /\ rules'[rule.ruleId] = rule
          /\ Has(active', rule.scope) /\ active'[rule.scope] = rule
          /\ Has(rafts', after.raftId)
          /\ Has(rafts'[after.raftId].rules, rule.ruleId)
          /\ rafts'[after.raftId].rules[rule.ruleId] = rule

C13AdoptionEffects ==
    [][\A proposalID \in DOMAIN proposals, voterID \in Otters,
          vote \in VoteInputs : C13Step(proposalID, voterID, vote)]_vars

\* An override in another scope than its base rule's has just been adopted.
C13Witness ==
    /\ last = Call("Vote", Ok)
    /\ \E proposalID \in DOMAIN proposals :
          LET rule == proposals[proposalID].rule
          IN /\ IsClosedAs(proposals[proposalID], ResultAdopted)
             /\ rule.baseRuleId = "r0"
             /\ rule.scope = "s2"
             /\ rule.adoptedAt = Some(now)
             /\ Has(active, "s2") /\ active["s2"] = rule
             /\ Has(rules, "r0") /\ Has(rules, "r1") /\ rules["r1"] = rule
             /\ rafts[NodeID].rules["r1"] = rule

----------------------------------------------------------------------------
(* C14: in every reachable state, a restart on the data directory included,
   every rule held in the rule registry or in a raft's rules with adoptedAt
   set has a proposal in the proposal registry whose rule it is, with result
   adopted and closedAt equal to the rule's adoptedAt. *)

Range(m) == {m[k] : k \in DOMAIN m}

HeldRules ==
    Range(rules) \cup Range(active)
       \cup UNION {Range(rafts[r].rules) : r \in DOMAIN rafts}

C14AdoptedHasProposal ==
    \A rule \in HeldRules :
       rule.adoptedAt # None
       => \E proposalID \in DOMAIN proposals :
             /\ proposals[proposalID].rule = rule
             /\ proposals[proposalID].result = ResultAdopted
             /\ proposals[proposalID].closedAt = rule.adoptedAt

----------------------------------------------------------------------------
(* C15: when an override proposal is adopted, its rule U1 naming by
   baseRuleId a rule U0 of another ruleId that is the active rule of its
   scope, afterwards U1 is the active rule of its scope, U0 is no longer in
   the active-by-scope index, and U0 is still in the ruleId index. *)

C15Step(proposalID, voterID, vote) ==
    LET u1 == proposals'[proposalID].rule
        u0 == rules[u1.baseRuleId]
    IN ( /\ VoteOk(proposalID, voterID, vote)
         /\ proposals'[proposalID].result = ResultAdopted
         /\ u1.baseRuleId # ""
         /\ u1.baseRuleId # u1.ruleId
         /\ Has(rules, u1.baseRuleId)
         /\ Has(active, u0.scope)
         /\ active[u0.scope] = u0 )
       => /\ Has(active', u1.scope) /\ active'[u1.scope] = u1
          /\ u0 \notin Range(active')
          /\ Has(rules', u0.ruleId) /\ rules'[u0.ruleId] = u0

----------------------------------------------------------------------------
(* C16: if saving the rule fails while an adopted rule is activated, the
   activation has no effect in memory: the rule registry's two indexes and
   the rafts' rules are as before the vote; so in no reachable state is a
   rule active in memory without its row in the database. *)

ActivePersisted(act, st) ==
    \A rule \in Range(act) :
       Has(st.rules, rule.ruleId) /\ st.rules[rule.ruleId] = rule

C16Step(proposalID, voterID, vote) ==
    ( /\ VoteOk(proposalID, voterID, vote)
      /\ proposals'[proposalID].result = ResultAdopted
      /\ ~dbUp )
    => UNCHANGED <<rafts, rules, active>>

C16PersistBeforeActivate ==
    [][/\ \A proposalID \in DOMAIN proposals, voterID \in Otters,
             vote \in VoteTypes : C16Step(proposalID, voterID, vote)
       /\ ActivePersisted(active', store')]_vars

----------------------------------------------------------------------------
(* C17: RequestJoin(targetRaftId, requesterId, publicKey) fails with
   RaftNotFound and changes no raft when the target is not in the raft
   registry; otherwise it succeeds and the raft has a member requesterId
   that is active, with joinedAt = lastSeenAt = now, the given public key
   and inductedBy = NodeID, the other members and rafts being as before, so
   that the new member counts among the raft's active members: in a raft of
   the node and one inducted otter a proposal is adopted only with the YES
   of both. *)

C17Step(targetRaftID, requesterID, publicKey) ==
    RequestJoin(targetRaftID, requesterID, publicKey)
    => IF ~Has(rafts, targetRaftID)
       THEN /\ last'.err = ErrRaftNotFound
            /\ UNCHANGED <<rafts, rules, active, proposals>>
       ELSE /\ last'.err = Ok
            /\ DOMAIN rafts' = DOMAIN rafts
            /\ \A r \in DOMAIN rafts \ {targetRaftID} : rafts'[r] = rafts[r]
            /\ rafts'[targetRaftID].rules = rafts[targetRaftID].rules
            /\ DOMAIN rafts'[targetRaftID].members
                  = DOMAIN rafts[targetRaftID].members \cup {requesterID}
            /\ \A id \in DOMAIN rafts[targetRaftID].members \ {requesterID} :
                  rafts'[targetRaftID].members[id]
                     = rafts[targetRaftID].members[id]
            /\ rafts'[targetRaftID].members[requesterID]
                  = [id |-> requesterID, state |-> StateActive,
                     joinedAt |-> now, lastSeenAt |-> now,
                     publicKey |-> publicKey, inductedBy |-> NodeID,
                     expiresAt |-> None]
            /\ GetActiveMembers(rafts', targetRaftID)
                  = GetActiveMembers(rafts, targetRaftID) \cup {requesterID}
            /\ UNCHANGED <<rules, active, proposals>>

C17BothYes(proposalID, voterID, vote) ==
    LET raft == rafts[proposals[proposalID].raftId]
        inducted == {id \in DOMAIN raft.members :
                        raft.members[id].inductedBy = NodeID}
    IN ( /\ VoteOk(proposalID, voterID, vote)
         /\ proposals'[proposalID].result = ResultAdopted
         /\ Cardinality(DOMAIN raft.members) = 2
         /\ Cardinality(inducted) >= 1
         /\ GetActiveMembers(rafts, raft.raftId) = DOMAIN raft.members )
       => \A id \in DOMAIN raft.members :
             /\ Has(proposals'[proposalID].votes, id)
             /\ proposals'[proposalID].votes[id] = VoteYes

C17RequestJoin ==
    [][/\ \A targetRaftID \in RaftIds, requesterID \in Otters,
             publicKey \in PublicKeys :
             C17Step(targetRaftID, requesterID, publicKey)
       /\ \A proposalID \in DOMAIN proposals, voterID \in Otters,
             vote \in VoteTypes : C17BothYes(proposalID, voterID, vote)]_vars

\* The node has just inducted b, later than the start, into its solo raft,
\* which now counts two active members.
C17Witness ==
    /\ last = Call("RequestJoin", Ok)
    /\ now > 0
    /\ DOMAIN rafts[NodeID].members = {NodeID, "b"}
    /\ rafts[NodeID].members["b"].joinedAt = now
    /\ rafts[NodeID].members["b"].inductedBy = NodeID
    /\ ActiveCount(NodeID) = 2

----------------------------------------------------------------------------
(* C18: a successful RequestJoin is persisted: when it returns, the database
   holds the new member's row for that raft, so a member inducted into a
   raft other than the solo raft is a member of it again after a restart
   that loads the data directory. *)

C18Step(targetRaftID, requesterID, publicKey) ==
    ( /\ RequestJoin(targetRaftID, requesterID, publicKey)
      /\ last'.err = Ok )
    => /\ Has(store'.members, <<targetRaftID, requesterID>>)
       /\ store'.members[<<targetRaftID, requesterID>>]
             = rafts'[targetRaftID].members[requesterID]

C18Restart ==
    (Restart /\ dbUp)
    => \A r \in DOMAIN rafts \ {NodeID} :
          /\ Has(rafts', r)
          /\ DOMAIN rafts[r].members \subseteq DOMAIN rafts'[r].members

C18JoinPersisted ==
    [][/\ \A targetRaftID \in RaftIds, requesterID \in Otters,
             publicKey \in PublicKeys :
             C18Step(targetRaftID, requesterID, publicKey)
       /\ C18Restart]_vars

----------------------------------------------------------------------------
(* C19: the membership states revoked and left are terminal: a member of a
   raft that is revoked or has left is not an active member of that raft
   after any later operation. *)

C19Step(raftID, id) ==
    rafts[raftID].members[id].state \in {StateRevoked, StateLeft}
    => ~IsActive(rafts', raftID, id)

----------------------------------------------------------------------------
(* C20: a liveness tick changes exactly the members that are active with
   lastSeenAt older than now minus the expiry window (90 days): each becomes
   expired with expiresAt = lastSeenAt + the window, and every other member
   and everything else is left as it was.  Afterwards a Vote on an open
   proposal or a ProposeRule by an expired member fails with
   MemberNotActive, and only RequestJoin makes an expired member active
   again. *)

C20Tick ==
    CheckExpiredMembers
    => /\ DOMAIN rafts' = DOMAIN rafts
       /\ \A r \in DOMAIN rafts :
             /\ rafts'[r].rules = rafts[r].rules
             /\ DOMAIN rafts'[r].members = DOMAIN rafts[r].members
             /\ \A id \in DOMAIN rafts[r].members :
                   LET m == rafts[r].members[id]
                   IN rafts'[r].members[id] =
                         IF m.state = StateActive
                            /\ m.lastSeenAt + ExpiryWindow < now
                         THEN [id |-> m.id, state |-> StateExpired,
                               joinedAt |-> m.joinedAt,
                               lastSeenAt |-> m.lastSeenAt,
                               publicKey |-> m.publicKey,
                               inductedBy |-> m.inductedBy,
                               expiresAt |-> Some(m.lastSeenAt + ExpiryWindow)]
                         ELSE m
       /\ UNCHANGED <<rules, active, proposals, now>>

IsExpired(raftID, id) ==
    /\ Has(rafts, raftID)
    /\ Has(rafts[raftID].members, id)
    /\ rafts[raftID].members[id].state = StateExpired

C20Vote(proposalID, voterID, vote) ==
    ( /\ Has(proposals, proposalID)
      /\ Vote(proposalID, voterID, vote)
      /\ IsOpen(proposals[proposalID])
      /\ IsExpired(proposals[proposalID].raftId, voterID) )
    => /\ last'.err = ErrMemberNotActive
       /\ UNCHANGED <<rafts, rules, active, proposals>>

C20Propose(raftID, rule) ==
    (ProposeRule(raftID, rule) /\ IsExpired(raftID, rule.proposedBy))
    => /\ last'.err = ErrMemberNotActive
       /\ UNCHANGED <<rafts, rules, active, proposals>>

C20Reinduct(raftID, id) ==
    (IsExpired(raftID, id) /\ IsActive(rafts', raftID, id))
    => /\ last' = Call("RequestJoin", Ok)
       /\ rafts'[raftID].members[id].lastSeenAt = now

C20Expiry ==
    [][/\ C20Tick
       /\ \A proposalID \in DOMAIN proposals, voterID \in Otters,
             vote \in VoteTypes : C20Vote(proposalID, voterID, vote)
       /\ \A raftID \in RaftIds, rule \in RuleInputs : C20Propose(raftID, rule)
       /\ \A raftID \in DOMAIN rafts, id \in Otters : C20Reinduct(raftID, id)]_vars

\* A tick has expired the node, last seen two windows ago, and has left b,
\* last seen exactly one window ago, active.
C20Witness ==
    /\ last = Call("checkExpiredMembers", Ok)
    /\ now = 2
    /\ Has(rafts[NodeID].members, NodeID) /\ Has(rafts[NodeID].members, "b")
    /\ rafts[NodeID].members[NodeID].state = StateExpired
    /\ rafts[NodeID].members[NodeID].lastSeenAt = 0
    /\ rafts[NodeID].members[NodeID].expiresAt = Some(1)
    /\ rafts[NodeID].members["b"].state = StateActive
    /\ rafts[NodeID].members["b"].lastSeenAt = 1

----------------------------------------------------------------------------
(* C21: when JoinRaft finds a conflict between a raft X of the node and the
   rules fetched from raft Y, and the mediator returns a text, the call
   succeeds and the proposal registry then holds two distinct open
   proposals, one of raft X and one of raft Y, whose rules are separate
   copies with the same compromise body. *)

\* The join of raft Y on the fetched rules found a conflict
JoinConflict(targetRules, ctx, llmProvider) ==
    /\ last'.op = "JoinRaft"
    /\ DetectRuleConflicts(OtherRaft, targetRules) # {}
    /\ JoinRaftWith(OtherRaft, targetRules, ctx, llmProvider)

C21Step(targetRules, ctx, llmProvider) ==
    (JoinConflict(targetRules, ctx, llmProvider) /\ llmProvider.ok)
    => /\ last'.err = Ok
       /\ \E p1, p2 \in DOMAIN proposals' :
             /\ p1 # p2
             /\ IsOpen(proposals'[p1])
             /\ IsOpen(proposals'[p2])
             /\ proposals'[p1].raftId
                   \in {c.raft1Id : c \in DetectRuleConflicts(OtherRaft, targetRules)}
             /\ proposals'[p2].raftId = OtherRaft
             /\ proposals'[p1].rule.body = proposals'[p2].rule.body
             /\ proposals'[p1].rule.proposedBy = LLMNegotiation
             /\ proposals'[p2].rule.proposedBy = LLMNegotiation

C21DualProposals ==
    [][\A targetRules \in FetchedRuleSets, ctx \in Contexts,
          llmProvider \in Mediators :
          C21Step(targetRules, ctx, llmProvider)]_vars

----------------------------------------------------------------------------
(* C22: when the negotiation of a join succeeds, its transcript is the
   prompt followed by the text the mediator returned, its compromise rule
   has the scope of the first conflict, the mediator's text as body and
   "llm-negotiation" as proposer, the rule is attached as proposedRule and
   the negotiation's status is resolved. *)

C22Step(targetRules, ctx, llmProvider) ==
    (JoinConflict(targetRules, ctx, llmProvider) /\ llmProvider.ok)
    => /\ Has(negotiations', NegotiationID(OtherRaft, now))
       /\ LET negotiation == negotiations'[NegotiationID(OtherRaft, now)]
          IN /\ negotiation.status = NegotiationResolved
             /\ negotiation.llmTranscript
                   = <<BuildNegotiationPrompt(negotiation), llmProvider.text>>
             /\ negotiation.proposedRule # None
             /\ negotiation.proposedRule[1].scope
                   = negotiation.conflicts[1].conflictScope
             /\ negotiation.proposedRule[1].body = llmProvider.text
             /\ negotiation.proposedRule[1].proposedBy = LLMNegotiation

C22Negotiation ==
    [][\A targetRules \in FetchedRuleSets, ctx \in Contexts,
          llmProvider \in Mediators :
          C22Step(targetRules, ctx, llmProvider)]_vars

----------------------------------------------------------------------------
(* C23: when the mediator fails, or the caller's deadline or cancellation
   is exceeded while the negotiation is in progress, the negotiation's
   status becomes failed and never resolved, JoinRaft returns the failure
   to its caller, and no proposal is created for that join attempt. *)

ErrMediator == "MediatorError"

C23Step(targetRules, ctx, llmProvider) ==
    ( /\ JoinConflict(targetRules, ctx, llmProvider)
      /\ ~llmProvider.ok \/ ctx = CtxDone )
    => /\ Has(negotiations', NegotiationID(OtherRaft, now))
       /\ negotiations'[NegotiationID(OtherRaft, now)].status = NegotiationFailed
       /\ last'.err \in {ErrMediator, ErrConflictUnresolved}
       /\ proposals' = proposals

C23MediatorFailure ==
    [][\A targetRules \in FetchedRuleSets, ctx \in Contexts,
          llmProvider \in Mediators :
          C23Step(targetRules, ctx, llmProvider)]_vars

----------------------------------------------------------------------------
(* C24: the node is never silently peered.  A JoinRaft that detected a
   conflict with the target raft enters the target raft in the raft
   registry, or its row in the database, only if the raft-1 and the raft-2
   proposal of the compromise both have the result adopted; when the
   negotiation fails or a proposal is not adopted, the join attempt has
   created no entry for the target raft. *)

\* Both proposals of the negotiation are in props with the result adopted
BothAdopted(negotiation, props) ==
    /\ negotiation.raft1Proposal # None
    /\ negotiation.raft2Proposal # None
    /\ \A p \in {negotiation.raft1Proposal[1], negotiation.raft2Proposal[1]} :
          Has(props, p) /\ props[p].result = ResultAdopted

\* The step enters no target raft in the registry or in the database
C24NoNewEntry ==
    /\ Has(rafts', OtherRaft) => Has(rafts, OtherRaft)
    /\ OtherRaft \in store'.rafts => OtherRaft \in store.rafts

C24Step(targetRules, ctx, llmProvider) ==
    JoinConflict(targetRules, ctx, llmProvider)
    => /\ Has(negotiations', NegotiationID(OtherRaft, now))
       /\ BothAdopted(negotiations'[NegotiationID(OtherRaft, now)], proposals')

C24NoSilentPeering ==
    [][\/ C24NoNewEntry
       \/ \A targetRules \in FetchedRuleSets, ctx \in Contexts,
             llmProvider \in Mediators :
             C24Step(targetRules, ctx, llmProvider)]_vars

\* A join has found a conflict and the target raft is not in the registry
C24Witness ==
    /\ last.op = "JoinRaft"
    /\ Has(negotiations, NegotiationID(OtherRaft, now))
    /\ ~Has(rafts, OtherRaft)
    /\ OtherRaft \notin store.rafts

----------------------------------------------------------------------------
(* C25: when JoinRaft detects no conflict it returns success, and then the
   raft registry has an entry for the target raft with an empty member map
   and the fetched rules as its rules, that raft has been written to the
   persistent store, and no proposal and no negotiation has been created. *)

C25Step(targetRaftID, ctx, llmProvider) ==
    LET targetRules == FetchRaftRules("endpoint", targetRaftID)
    IN ( /\ JoinRaft(targetRaftID, "endpoint", ctx, llmProvider)
         /\ DetectRuleConflicts(targetRaftID, targetRules) = {} )
       => /\ last'.err = Ok
          /\ Has(rafts', targetRaftID)
          /\ rafts'[targetRaftID].members = EmptyMap
          /\ rafts'[targetRaftID].rules = targetRules
          /\ targetRaftID \in store'.rafts
          /\ \A k \in DOMAIN targetRules :
                Has(store'.rules, targetRules[k].ruleId)
          /\ proposals' = proposals
          /\ negotiations' = negotiations

C25JoinWithoutConflict ==
    [][\A targetRaftID \in RaftIds, ctx \in Contexts, llmProvider \in Mediators :
          C25Step(targetRaftID, ctx, llmProvider)]_vars

----------------------------------------------------------------------------
(* C26: detectRuleConflicts(targetRaftId, targetRules) returns exactly one
   RuleConflict for every pair of a rule of a raft of the registry other
   than the target and a target rule that have the same scope and different
   bodies, and none for a pair with equal bodies or different scopes or for
   a rule of the target raft itself; each conflict names the existing raft
   as raft1Id, the target as raft2Id and the shared scope as conflictScope. *)

\* How often the slice names the pair of raft r's rule e and target rule t
C26Count(conflicts, r, e, t) ==
    Cardinality({i \in 1..Len(conflicts) :
                    /\ conflicts[i].raft1Id = r
                    /\ conflicts[i].rule1 = e
                    /\ conflicts[i].rule2 = t})

C26Exact(targetRaftID, targetRules, conflicts) ==
    /\ \A r \in DOMAIN rafts :
          \A k1 \in DOMAIN rafts[r].rules, k2 \in DOMAIN targetRules :
             LET e == rafts[r].rules[k1]
                 t == targetRules[k2]
             IN C26Count(conflicts, r, e, t) =
                   IF r # targetRaftID /\ e.scope = t.scope /\ e.body # t.body
                   THEN 1 ELSE 0
    /\ \A i \in 1..Len(conflicts) :
          /\ Has(rafts, conflicts[i].raft1Id)
          /\ conflicts[i].raft1Id # targetRaftID
          /\ conflicts[i].rule1 \in Range(rafts[conflicts[i].raft1Id].rules)
          /\ conflicts[i].rule2 \in Range(targetRules)
          /\ conflicts[i].raft2Id = targetRaftID
          /\ conflicts[i].conflictScope = conflicts[i].rule1.scope
          /\ conflicts[i].conflictScope = conflicts[i].rule2.scope

C26DetectRuleConflicts ==
    \A targetRaftID \in RaftIds, targetRules \in FetchedRuleSets :
       /\ ConflictOrders(targetRaftID, targetRules) # {}
       /\ \A conflicts \in ConflictOrders(targetRaftID, targetRules) :
             C26Exact(targetRaftID, targetRules, conflicts)

\* The registry holds a rule of the node's raft and a rule of the target
\* raft that both differ in body from a target rule of their scope
C26Witness ==
    \E targetRules \in FetchedRuleSets :
       /\ DetectRuleConflicts(OtherRaft, targetRules) # {}
       /\ Has(rafts, OtherRaft)
       /\ \E e \in Range(rafts[OtherRaft].rules), t \in Range(targetRules) :
             e.scope = t.scope /\ e.body # t.body
       /\ \E e \in Range(rafts[NodeID].rules), t \in Range(targetRules) :
             e.scope = t.scope /\ e.body = t.body

----------------------------------------------------------------------------
(* C27: under any interleaving of concurrent Vote calls on one proposal the
   proposal is closed at most once: a step that closes a proposal and
   activates its rule finds the proposal open, a closed proposal stays
   closed, so one call alone performs the transition from open to closed;
   and the Vote calls take effect in a single total order, one call at a
   time being between its entry and its return. *)

\* At most one Vote call is past its entry, and it holds the lock
C27OneAtATime ==
    /\ Cardinality(DOMAIN frames) <= 1
    /\ \A g \in DOMAIN frames : proposalsMu = g

C27Step(g) ==
    /\ ( /\ VoteCheckOutcome(g)
         /\ proposals'[frames[g].proposalID].status = ProposalClosed )
       => proposals[frames[g].proposalID].status = ProposalOpen
    /\ (VoteValidate(g) \/ VoteRecord(g) \/ VoteCheckOutcome(g) \/ VoteUnlock(g))
       => \A p \in DOMAIN proposals :
             proposals[p].status = ProposalClosed
             => Has(proposals', p) /\ proposals'[p] = proposals[p]

C27ClosedOnce ==
    [][C27OneAtATime' /\ \A g \in Goroutines : C27Step(g)]_vars

\* The second of two calls on one proposal has waited for the first, which
\* closed the proposal, and is turned away
C27Witness ==
    \E g \in DOMAIN frames :
       /\ frames[g].pc = "unlock"
       /\ frames[g].err = ErrProposalClosed
       /\ calls >= 3

----------------------------------------------------------------------------
(* C28: in every reachable state ListActiveRules returns, for each scope,
   the rule whose adoptedAt is the latest among the adopted rules of that
   scope in all the rafts the node is in, the rules adopted by joining a
   raft and the rules restored after a restart included.  A rule that an
   adopted override names as its base is not counted. *)

AdoptedRules ==
    {u \in UNION {Range(rafts[r].rules) : r \in DOMAIN rafts} :
        u.adoptedAt # None}

\* The adopted rules of the scope that no adopted override has replaced
C28Candidates(scope) ==
    {u \in AdoptedRules :
        /\ u.scope = scope
        /\ ~\E o \in AdoptedRules : o.baseRuleId = u.ruleId}

C28LatestPerScope ==
    \A scope \in {u.scope : u \in AdoptedRules} :
       C28Candidates(scope) # {}
       => /\ Has(GetActiveRules, scope)
          /\ GetActiveRules[scope] \in C28Candidates(scope)
          /\ \A u \in C28Candidates(scope) :
                u.adoptedAt[1] <= GetActiveRules[scope].adoptedAt[1]

----------------------------------------------------------------------------
(* C29: the persistence round trip.  For every raft other than the solo
   raft, after a successful saveRaft followed by a restart of the process
   that loads the data directory, the raft of the registry has the same
   raftId, the same members with the same state, inductedBy, publicKey and
   expiresAt, and the same rules with the same ruleId, raftId, scope, body,
   baseRuleId and presence of adoptedAt as before the restart. *)

\* What the claim compares of a member and of a rule
C29Member(m) ==
    <<m.id, m.state, m.inductedBy, m.publicKey, m.expiresAt>>

C29Rule(u) ==
    <<u.ruleId, u.raftId, u.scope, u.body, u.baseRuleId, u.adoptedAt # None>>

C29Same(a, b) ==
    /\ a.raftId = b.raftId
    /\ {C29Member(m) : m \in Range(a.members)} = {C29Member(m) : m \in Range(b.members)}
    /\ {C29Rule(u) : u \in Range(a.rules)} = {C29Rule(u) : u \in Range(b.rules)}

\* The database holds the raft as a successful saveRaft of it leaves it
C29Saved(raft) == SaveRaft(store, TRUE, raft) = store

C29Step(r) ==
    (Restart /\ dbUp /\ r # NodeID /\ C29Saved(rafts[r]))
    => /\ Has(rafts', r)
       /\ C29Same(rafts'[r], rafts[r])

C29RoundTrip ==
    [][\A r \in DOMAIN rafts : C29Step(r)]_vars

----------------------------------------------------------------------------
(* C30: after a start that loads the data directory, every persisted rule
   with adoptedAt set, of whichever raft, the node's solo raft included, is
   in the rule registry, and the member map of the bootstrapped solo raft
   is the one initializeSelf made, not the persisted rows of the raft whose
   id is the node's id. *)

C30Indexed(st, rls) ==
    \A k \in DOMAIN st.rules :
       st.rules[k].adoptedAt # None
       => Has(rls, k) /\ rls[k] = st.rules[k]

C30Step ==
    (Restart /\ dbUp)
    => /\ C30Indexed(store', rules')
       /\ Has(rafts', NodeID)
       /\ rafts'[NodeID].members = SelfRaft(now).members

C30LoadIndexesAdopted == [][C30Step]_vars

----------------------------------------------------------------------------
(* C31: the Sign/Verify round trip.  For every message m, Verify of m, of
   the signature Sign made of m and of the key store's own public key
   returns true; and Verify with that public key returns false for a
   signature the key store made of another message. *)

C31RoundTrip ==
    /\ last.op = "Sign"
       => Verify(crypto, last.message, last.signature, GetPublicKey(crypto))
    /\ ( /\ last.op = "Verify"
         /\ last.publicKey = GetPublicKey(crypto)
         /\ \E m \in Messages :
               m # last.message /\ last.signature = Sign(crypto, m) )
       => ~last.valid

----------------------------------------------------------------------------
(* C32: ProposeRule gives the proposal a proposalId and the rule a ruleId
   that are functions of the rule's stable fields (scope, body, timestamp,
   proposer): a proposal built from the input of an existing proposal gets
   the ids of that proposal, two proposals whose rules differ in one of
   those fields have different proposalIds and different ruleIds, and every
   adopted rule is retained under its own ruleId in the ruleId index of the
   rule registry. *)

StableFields(rule) ==
    <<rule.scope, rule.body, rule.timestamp, rule.proposedBy>>

\* The rule as the caller passed it
C32Input(rule) == [rule EXCEPT !.raftId = "", !.adoptedAt = None]

C32Distinct(props) ==
    \A p, q \in Range(props) :
       StableFields(p.rule) # StableFields(q.rule)
       => /\ p.proposalId # q.proposalId
          /\ p.rule.ruleId # q.rule.ruleId

C32Retained(props, rls) ==
    \A p \in Range(props) :
       IsClosedAs(p, ResultAdopted)
       => /\ Has(rls, p.rule.ruleId)
          /\ rls[p.rule.ruleId] = p.rule

C32Same(raftID, rule) ==
    ( /\ ProposeRule(raftID, rule)
      /\ last'.err = Ok
      /\ \E q \in Range(proposals) :
            q.raftId = raftID /\ C32Input(q.rule) = C32Input(rule) )
    => /\ DOMAIN proposals' = DOMAIN proposals
       /\ \E q \in Range(proposals) :
             /\ q.raftId = raftID
             /\ C32Input(q.rule) = C32Input(rule)
             /\ Has(proposals', q.proposalId)
             /\ proposals'[q.proposalId].rule.ruleId = q.rule.ruleId

C32DeterministicIds ==
    [][/\ C32Distinct(proposals')
       /\ C32Retained(proposals', rules')
       /\ \A rule \in CallerRuleInputs(now) : C32Same(NodeID, rule)]_vars

----------------------------------------------------------------------------
(* C33: in every reachable state, right after the bootstrap and after any
   sequence of RequestJoin, JoinRaft, ProposeRule, Vote and loads of the
   data directory, the node's own member record is held with inductedBy =
   "self" by exactly one raft, the solo raft, whose raftId is the node's
   id; and right after the bootstrap the solo raft has exactly one member,
   the node itself, in state active. *)

\* The rafts that hold the node's member record as a bootstrap record
C33SelfRafts ==
    {r \in DOMAIN rafts :
        /\ Has(rafts[r].members, NodeID)
        /\ rafts[r].members[NodeID].inductedBy = "self"}

C33SelfInSoloRaft ==
    /\ C33SelfRafts = {NodeID}
    /\ last.op = "New"
       => /\ DOMAIN rafts[NodeID].members = {NodeID}
          /\ rafts[NodeID].members[NodeID].id = NodeID
          /\ rafts[NodeID].members[NodeID].state = StateActive

----------------------------------------------------------------------------
(* C34: within one Vote call the voter's membership check, the recording of
   the vote, the count of the active members and the evaluation of the
   outcome are atomic with respect to the membership of the proposal's
   raft: between the check of the voter and the count that decides the
   outcome no RequestJoin and no liveness expiry takes effect, so no vote
   is recorded for a voter who is expired when it is recorded, and N is the
   size of the raft at the moment the voter was checked. *)

\* The call of g has checked its voter and has not yet counted the members
C34Checked(g) ==
    /\ Has(frames, g)
    /\ frames[g].pc \in {"record", "outcome"}

C34Raft(g) == proposals[frames[g].proposalID].raftId

C34Step(g) ==
    /\ C34Checked(g)
       => rafts'[C34Raft(g)].members = rafts[C34Raft(g)].members
    /\ VoteRecord(g)
       => IsActive(rafts, C34Raft(g), frames[g].voterID)

C34VoteAtomic ==
    [][\A g \in Goroutines : C34Step(g)]_vars

----------------------------------------------------------------------------
(* C35: no interleaving of concurrent ProposeRule, Vote with its rule
   activation and persistence, RequestJoin, JoinRaft with its conflict
   detection and raft adoption, saveRaft and liveness ticks reaches a
   deadlock on the locks of the Governance, of the proposal, rule and raft
   registries and of the rafts: in no state are all the calls in flight
   blocked, and every call that has begun returns, and holds no lock when
   it has. *)

\* The call of g waits for a mutex it cannot have now
C35Blocked(g) ==
    /\ Running(g)
    /\ \/ /\ NextOp(g).kind = "Lock"
          /\ \/ locks[NextOp(g).mu].writer # NoHolder
             \/ locks[NextOp(g).mu].readers # {}
       \/ /\ NextOp(g).kind = "RLock"
          /\ \/ locks[NextOp(g).mu].writer # NoHolder
             \/ locks[NextOp(g).mu].waiting # {}

C35Holds(g) ==
    {m \in LockNames : locks[m].writer = g \/ g \in locks[m].readers}

C35NoDeadlock ==
    /\ frames # NoFrames => \E g \in DOMAIN frames : ~C35Blocked(g)
    /\ \A g \in Callers : ~Has(frames, g) => C35Holds(g) = {}

C35DeadlockFree ==
    /\ []C35NoDeadlock
    /\ \A g \in Callers : Has(frames, g) ~> ~Has(frames, g)

\* Two calls and the sweep are in flight, one call holds the registry of
\* rafts for reading while the sweep waits for it, and the other call waits
\* behind the sweep
C35Witness ==
    /\ DOMAIN frames = Callers
    /\ Monitor \in locks["g.rafts.mu"].waiting
    /\ locks["g.rafts.mu"].readers # {}
    /\ \E g \in Goroutines : C35Blocked(g) /\ NextOp(g).mu = "g.rafts.mu"

----------------------------------------------------------------------------
(* C36: conflict detection is deterministic.  For one state of the raft
   registry and one set of target rules detectRuleConflicts returns the
   conflicts in one order, the rafts sorted by raftId and the rules by
   ruleId, so that the negotiation's raft1Id and the scope of the
   compromise rule, both taken from the first conflict, are the same on
   every run. *)

\* The ids of the rafts and rules in their order as strings
IdOrder == <<"n", "r1", "r2", "t1", "t2", "t3", "y">>
Rank(id) == CHOOSE i \in 1..Len(IdOrder) : IdOrder[i] = id

\* Conflict c comes before conflict d: by raft, then by the raft's rule,
\* then by the target's rule
C36Before(c, d) ==
    \/ Rank(c.raft1Id) < Rank(d.raft1Id)
    \/ /\ c.raft1Id = d.raft1Id
       /\ \/ Rank(c.rule1.ruleId) < Rank(d.rule1.ruleId)
          \/ /\ c.rule1.ruleId = d.rule1.ruleId
             /\ Rank(c.rule2.ruleId) < Rank(d.rule2.ruleId)

C36Sorted(conflicts) ==
    \A i, j \in 1..Len(conflicts) :
       i < j => C36Before(conflicts[i], conflicts[j])

\* The conflict every run has to put first
C36First(targetRules) ==
    CHOOSE c \in DetectRuleConflicts(OtherRaft, targetRules) :
       \A d \in DetectRuleConflicts(OtherRaft, targetRules) :
          d # c => C36Before(c, d)

C36Step(targetRules, ctx, llmProvider) ==
    JoinConflict(targetRules, ctx, llmProvider)
    => /\ Has(negotiations', NegotiationID(OtherRaft, now))
       /\ LET negotiation == negotiations'[NegotiationID(OtherRaft, now)]
          IN /\ C36Sorted(negotiation.conflicts)
             /\ negotiation.raft1Id = C36First(targetRules).raft1Id
             /\ negotiation.proposedRule # None
             /\ negotiation.proposedRule[1].scope
                   = C36First(targetRules).conflictScope

C36Deterministic ==
    [][\A targetRules \in FetchedRuleSets, ctx \in Contexts,
          llmProvider \in Mediators :
          C36Step(targetRules, ctx, llmProvider)]_vars

----------------------------------------------------------------------------
(* C37: also when members join and expire while a proposal is open, at the
   step that adopts a proposal the active members of its raft who have a
   YES entry on it number at least the threshold for the raft's size N at
   that moment: 1 for N = 1, 2 for N = 2, ceil(2N/3) for N >= 3, and
   ceil(3N/4) for N >= 3 when the rule is an override. *)

C37Threshold(N, override) ==
    IF N <= 2 THEN N
    ELSE IF override THEN Ceil(3 * N, 4) ELSE Ceil(2 * N, 3)

\* The members of the raft active in rs who have voted YES on the proposal
C37ActiveYes(rs, proposal) ==
    {id \in GetActiveMembers(rs, proposal.raftId) :
        /\ Has(proposal.votes, id)
        /\ proposal.votes[id] = VoteYes}

C37Step(proposalID) ==
    ( /\ Has(proposals', proposalID)
      /\ proposals[proposalID].result # ResultAdopted
      /\ proposals'[proposalID].result = ResultAdopted )
    => LET proposal == proposals'[proposalID]
           N == Cardinality(GetActiveMembers(rafts', proposal.raftId))
       IN /\ N >= 1
          /\ Cardinality(C37ActiveYes(rafts', proposal))
                >= C37Threshold(N, proposal.rule.baseRuleId # "")

C37ActiveYesAdopts ==
    [][\A proposalID \in DOMAIN proposals : C37Step(proposalID)]_vars

----------------------------------------------------------------------------
(* C38: a ProposeRule that returns no error adds exactly one new proposal
   to the proposal registry and leaves every proposal already there as it
   was: the votes cast on an open proposal and the outcome of a closed one
   survive a later proposal of a rule with the same raftId, scope, body,
   timestamp and proposer. *)

C38Step(raftID, rule) ==
    ( /\ ProposeRule(raftID, rule)
      /\ last'.err = Ok )
    => /\ \A proposalID \in DOMAIN proposals :
             /\ Has(proposals', proposalID)
             /\ proposals'[proposalID] = proposals[proposalID]
       /\ Cardinality(DOMAIN proposals' \ DOMAIN proposals) = 1

C38ProposeAddsOne ==
    [][\A raftID \in RaftIds, rule \in RuleInputs : C38Step(raftID, rule)]_vars

----------------------------------------------------------------------------
(* C39: a liveness tick does not expire a member who has taken part in the
   raft within the last expiry window.  Taking part is read off the
   proposals: a closed proposal whose only vote is the member's was closed
   by that member's vote, at its closedAt.  Such a member, active before a
   sweep less than one window after that vote, is active after it. *)

\* The member cast a vote in the raft at time t
C39VotedAt(raftID, id, t) ==
    \E proposalID \in DOMAIN proposals :
       /\ proposals[proposalID].raftId = raftID
       /\ proposals[proposalID].status = ProposalClosed
       /\ proposals[proposalID].closedAt = Some(t)
       /\ DOMAIN proposals[proposalID].votes = {id}

C39Step(raftID, id) ==
    ( /\ CheckExpiredMembers
      /\ IsActive(rafts, raftID, id)
      /\ \E t \in 0..now : t + ExpiryWindow > now /\ C39VotedAt(raftID, id, t) )
    => IsActive(rafts', raftID, id)

C39ActivityKeepsAlive ==
    [][\A raftID \in DOMAIN rafts :
          \A id \in DOMAIN rafts[raftID].members : C39Step(raftID, id)]_vars

----------------------------------------------------------------------------
(* C40: for every client identifier, the requests Allow has admitted with
   timestamps within one window of length rl.window number at most
   rl.limit, whatever the interleaving of the Allow calls with the cleanup
   pass.  A window is taken half open, (t - window, t], as Allow's own
   cutoff takes it. *)

C40Admitted(identifier, t) ==
    {i \in 1..Len(allowed) :
        /\ allowed[i].identifier = identifier
        /\ allowed[i].at > t - RateWindow
        /\ allowed[i].at <= t}

C40AtMostLimit ==
    \A identifier \in Identifiers, t \in 0..MaxRateNow :
       Cardinality(C40Admitted(identifier, t)) <= RateLimit

====
